---------------------------- MODULE Spec2Model ----------------------------
(***************************************************************************)
(* GoTriMet: the breadcrumb subscriber (subscriber.py), the stop-event     *)
(* subscriber (subscriber_stop.py) and the PostgreSQL loader               *)
(* (load_to_postgres.py), as state machines.                               *)
(*                                                                         *)
(*   Spec      the breadcrumb subscriber's threads: the Pub/Sub callback   *)
(*             workers, the idle poller process_and_save, the main thread  *)
(*             with its SIGTERM handler, df_lock, message_buffer and the   *)
(*             wall clock.  Records are message ids; the flush pipeline    *)
(*             is an abstract step that completes or raises.               *)
(*   SpecLoad  load_breadcrumb_data against the trip and breadcrumb        *)
(*             tables: deduplication, staging, the two INSERT ... ON       *)
(*             CONFLICT DO NOTHING statements and the commit, with the     *)
(*             connection failing at any step.                             *)
(*   SpecStore load_stop_event_data and load_breadcrumb_data, one call     *)
(*             after the other, against the tables trip, breadcrumb and    *)
(*             stop_event.                                                 *)
(*   SpecStop  the stop-event subscriber's threads: a Pub/Sub callback,    *)
(*             the inactivity monitor, the main thread with its signal     *)
(*             handler and shutdown flush, self.rows and the wall clock.   *)
(*   SpecPipe  one flush of the breadcrumb subscriber over concrete rows:  *)
(*             the stages of process_buffer in the order of the source,    *)
(*             from the validations to the call of load_breadcrumb_data.   *)
(***************************************************************************)
EXTENDS Integers, Sequences, FiniteSets, TLC

(***************************************************************************)
(* Bounds of the model.                                                    *)
(***************************************************************************)
NumWorkers == 2
MaxMsgs == 2
MaxTicks == 8
MaxBatch == 2
MaxRows == 3
MaxStopRows == 1

(***************************************************************************)
(* Program constants of subscriber.py.                                     *)
(***************************************************************************)
idle_check_interval == 60
idle_threshold == 180

\* The clock advances in steps of half a poll interval.
TickLen == idle_check_interval \div 2
MaxTime == MaxTicks * TickLen

Workers == 1..NumWorkers
Msgs == 1..MaxMsgs
\* Thread ids: the callback workers, then the idle poller and the main thread.
Poller == NumWorkers + 1
Main == NumWorkers + 2
Executors == {Poller, Main}
Threads == Workers \cup Executors
\* df_lock = threading.Lock(): unlocked
Free == 0

VARIABLES
    now,                \* wall clock, seconds since the module was imported
    pc,                 \* position of every thread
    df_lock,            \* holder of df_lock, or Free
    message_buffer,     \* the global list of buffered records
    last_message_time,  \* the global timestamp of the last buffered message
    COUNT,              \* the global message counter
    wakeAt,             \* when the poller's time.sleep returns
    cur,                \* the message each callback worker is handling
    decode,             \* per message: "pending", or how json.loads ended: "ok", "failed"
    acks, nacks,        \* per message: calls of message.ack / message.nack
    df,                 \* per executor: the DataFrame process_buffer works on
    appendedAt,         \* history: per message, when it was appended (-1: never)
    drained,            \* history: per message, in how many batches process_buffer took it
    loadFailed,         \* history: records whose batch's load raised
    sigBuffer           \* history: records buffered when a SIGTERM arrived

subVars == <<now, pc, df_lock, message_buffer, last_message_time, COUNT, wakeAt,
             cur, decode, acks, nacks, df, appendedAt, drained,
             loadFailed, sigBuffer>>

(***************************************************************************)
(* State of the loader (load_to_postgres.py) and of the store.            *)
(***************************************************************************)
VARIABLES
    trip,               \* the committed rows of table trip
    breadcrumb,         \* the committed rows of table breadcrumb
    txTrip,             \* table trip as the open transaction sees it
    txBreadcrumb,       \* table breadcrumb as the open transaction sees it
    tmp_trip,           \* the rows staged in TEMP TABLE tmp_trip
    tmp_breadcrumb,     \* the rows staged in TEMP TABLE tmp_breadcrumb
    new_trip_rows,      \* SELECT COUNT(*) FROM tmp_trip
    new_breadcrumb_rows,\* SELECT COUNT(*) FROM tmp_breadcrumb
    lpc,                \* position inside load_breadcrumb_data
    ldf,                \* the frame passed to the current or the last call
    lresult,            \* how the last call ended
    reload              \* history: the call repeats the frame of a call that returned

loadVars == <<trip, breadcrumb, txTrip, txBreadcrumb, tmp_trip, tmp_breadcrumb,
              new_trip_rows, new_breadcrumb_rows, lpc, ldf, lresult, reload>>

(***************************************************************************)
(* State of the stop-event subscriber (subscriber_stop.py).                *)
(***************************************************************************)
VARIABLES
    stop_now,               \* datetime.datetime.now(), in seconds
    stop_pc,                \* position of the callback, the monitor and the main thread
    rows,                   \* self.rows, as message ids
    received_any_message,   \* self.received_any_message
    self_last_message_time, \* self.last_message_time
    shutdown_event,         \* self.shutdown_event.is_set()
    stop_wakeAt,            \* when the monitor's wait(timeout=60) times out
    stop_cur,               \* the message the callback is handling, 0 if none
    stop_decode,            \* per message: "pending", "ok", "short", "failed"
    stop_acked,             \* the messages acked
    stop_nacked,            \* the messages nacked
    stop_df,                \* per flushing thread: the frame built from self.rows
    stopLoadFailed,         \* history: records of a frame whose load raised
    stopRetried,            \* history: records put into a frame after their load raised
    stopBatched             \* history: per message, the frames its record was put into

stopVars == <<stop_now, stop_pc, rows, received_any_message, self_last_message_time,
              shutdown_event, stop_wakeAt, stop_cur, stop_decode, stop_acked,
              stop_nacked, stop_df, stopLoadFailed, stopRetried, stopBatched>>

(***************************************************************************)
(* State of one flush over concrete rows (subscriber.py, process_buffer).  *)
(***************************************************************************)
VARIABLES
    pipe_pc,            \* the stage process_buffer is about to run
    pipe_df,            \* the local df of process_buffer: its rows
    pipe_columns,       \* the names of the columns of df
    pipe_after_speed,   \* history: what add_speed_column returned in this flush
    pipe_loaded,        \* history: the frames load_breadcrumb_data was called with
    pipe_warnings       \* history: what the checks logged in this flush, <<check, row>>

pipeVars == <<pipe_pc, pipe_df, pipe_columns, pipe_after_speed, pipe_loaded,
              pipe_warnings>>

(***************************************************************************)
(* State of load_stop_event_data (load_to_postgres.py) and of its table.   *)
(***************************************************************************)
VARIABLES
    stop_event,         \* the committed rows of table stop_event
    stop_event_key,     \* the columns of the unique key of stop_event, <<>> before
                        \* the table exists
    txStopEvent,        \* table stop_event as the open transaction sees it
    tmp_stop_event,     \* the rows staged in TEMP TABLE tmp_stop_event
    slpc,               \* position inside load_stop_event_data
    sldf,               \* the frame passed to the current or the last call
    slresult,           \* how the last call ended
    slprev              \* history: the rows of the frame of the call before,
                        \* when the database was reached in that call

stopLoadVars == <<stop_event, stop_event_key, txStopEvent, tmp_stop_event,
                  slpc, sldf, slresult, slprev>>

(***************************************************************************)
(* The environment of the process (os.getenv, load_to_postgres.py 17-21).  *)
(***************************************************************************)
VARIABLES
    environ             \* the names of the variables that are set

envVars == <<environ>>

stopLoadVarsButPc == <<stop_event, stop_event_key, txStopEvent, tmp_stop_event,
                       sldf, slresult, slprev>>

vars == <<subVars, envVars, loadVars, stopLoadVars, stopVars, pipeVars>>

\* lines 97-100 and 196-199: the variables psycopg2.connect is given
connect_env == {"DB_NAME", "DB_USER", "DB_PASSWORD", "DB_HOST"}

\* lines 17-21: the value of the variable (here its name stands for it), or
\* the exception raised when it is not set
require_env(var) == IF var \in environ THEN var ELSE "EnvironmentError"

InitEnvWith(environs) == environ \in environs

\* every variable is set
InitEnv == InitEnvWith({connect_env})

Range(s) == {s[i] : i \in DOMAIN s}

Occurrences(s, x) == Cardinality({i \in DOMAIN s : s[i] = x})

(***************************************************************************)
(* The process is alive until exit(0) of the SIGTERM handler.              *)
(***************************************************************************)
Alive == pc[Main] # "exited"

PBStages == {"pb_df", "pb_clear", "pb_pipeline", "pb_load", "pb_return"}

InProcessBuffer(e) == pc[e] \in PBStages

InitSub ==
    /\ now = 0
    /\ pc = [t \in Threads |->
               IF t \in Workers THEN "idle" ELSE IF t = Poller THEN "sleep" ELSE "run"]
    /\ df_lock = Free
    /\ message_buffer = <<>>
    /\ last_message_time = 0
    /\ COUNT = 0
    /\ wakeAt = idle_check_interval
    /\ cur = [w \in Workers |-> 0]
    /\ decode = [m \in Msgs |-> "pending"]
    /\ acks = [m \in Msgs |-> 0]
    /\ nacks = [m \in Msgs |-> 0]
    /\ df = [e \in Executors |-> <<>>]
    /\ appendedAt = [m \in Msgs |-> -1]
    /\ drained = [m \in Msgs |-> 0]
    /\ loadFailed = {}
    /\ sigBuffer = {}


(***************************************************************************)
(* callback and process_message (subscriber.py 79-96), per worker thread   *)
(* of the Pub/Sub subscriber.  Messages are delivered in id order; a       *)
(* payload either decodes as JSON or makes json.loads raise.               *)
(***************************************************************************)
InFlight(m) == \E w \in Workers : pc[w] # "idle" /\ cur[w] = m

Undelivered == {m \in Msgs : decode[m] = "pending"}

NextMsg == CHOOSE m \in Undelivered : \A k \in Undelivered : m <= k

\* Mutant: a payload that does not decode is buffered and acknowledged all the same.
callback_branch_swallow(ok) == "lock"

\* callback, lines 90-96: the try body goes on to process_message, an
\* exception of json.loads to the except clause
callback_branch(ok) == IF ok THEN "lock" ELSE "nack"

\* callback, line 91: json.loads(message.data.decode("utf-8"))
callback(w) ==
    /\ Alive
    /\ pc[w] = "idle"
    /\ \A v \in Workers : v < w => pc[v] # "idle"
    /\ Undelivered # {}
    /\ \E ok \in BOOLEAN :
         /\ decode' = [decode EXCEPT ![NextMsg] = IF ok THEN "ok" ELSE "failed"]
         /\ pc' = [pc EXCEPT ![w] = callback_branch(ok)]
    /\ cur' = [cur EXCEPT ![w] = NextMsg]
    /\ UNCHANGED <<now, df_lock, message_buffer, last_message_time, COUNT,
                   wakeAt, acks, nacks, df, appendedAt, drained, loadFailed,
                   sigBuffer>>

\* Mutant: the append is done without taking df_lock.
process_message_unlocked(w) == TRUE

\* process_message, line 82: with df_lock
process_message_lock(w) == df_lock = Free

\* increment_message_count, lines 56-60
increment_message_count(c) == c + 1

\* process_message, lines 82-84: the with block, entered when df_lock is free
\* and left before any other thread runs
process_message_append(w) ==
    /\ Alive
    /\ pc[w] = "lock"
    /\ process_message_lock(w)
    /\ message_buffer' = Append(message_buffer, cur[w])
    /\ COUNT' = increment_message_count(COUNT)
    /\ appendedAt' = [appendedAt EXCEPT ![cur[w]] = now]
    /\ pc' = [pc EXCEPT ![w] = "stamp"]
    /\ UNCHANGED <<now, df_lock, last_message_time, wakeAt, cur, decode, acks,
                   nacks, df, drained, loadFailed, sigBuffer>>

\* process_message, line 85: last_message_time = datetime.datetime.now()
process_message_stamp(w) ==
    /\ Alive
    /\ pc[w] = "stamp"
    /\ last_message_time' = now
    /\ pc' = [pc EXCEPT ![w] = "ack"]
    /\ UNCHANGED <<now, df_lock, message_buffer, COUNT, wakeAt, cur, decode,
                   acks, nacks, df, appendedAt, drained, loadFailed, sigBuffer>>

\* callback, line 93: message.ack()
callback_ack(w) ==
    /\ Alive
    /\ pc[w] = "ack"
    /\ acks' = [acks EXCEPT ![cur[w]] = @ + 1]
    /\ pc' = [pc EXCEPT ![w] = "idle"]
    /\ cur' = [cur EXCEPT ![w] = 0]
    /\ UNCHANGED <<now, df_lock, message_buffer, last_message_time, COUNT,
                   wakeAt, decode, nacks, df, appendedAt, drained, loadFailed,
                   sigBuffer>>

\* callback, lines 94-96: the except branch
callback_nack(w) ==
    /\ Alive
    /\ pc[w] = "nack"
    /\ nacks' = [nacks EXCEPT ![cur[w]] = @ + 1]
    /\ pc' = [pc EXCEPT ![w] = "idle"]
    /\ cur' = [cur EXCEPT ![w] = 0]
    /\ UNCHANGED <<now, df_lock, message_buffer, last_message_time, COUNT,
                   wakeAt, decode, acks, df, appendedAt, drained, loadFailed,
                   sigBuffer>>

(***************************************************************************)
(* process_buffer (subscriber.py 297-335), run by executor e: the idle     *)
(* poller or the SIGTERM handler on the main thread.  What follows the     *)
(* drain completes or raises into the except clause of lines 334-335; the  *)
(* load is the step that takes time.                                       *)
(***************************************************************************)
\* line 300: df = pd.DataFrame(message_buffer)
process_buffer_df(e) ==
    /\ Alive
    /\ pc[e] = "pb_df"
    /\ df' = [df EXCEPT ![e] = message_buffer]
    /\ pc' = [pc EXCEPT ![e] = "pb_clear"]
    /\ UNCHANGED <<now, df_lock, message_buffer, last_message_time, COUNT,
                   wakeAt, cur, decode, acks, nacks, appendedAt, drained,
                   loadFailed, sigBuffer>>

\* line 301: message_buffer = []
process_buffer_clear(e) ==
    /\ Alive
    /\ pc[e] = "pb_clear"
    /\ message_buffer' = <<>>
    /\ drained' = [m \in Msgs |-> drained[m] + Occurrences(df[e], m)]
    /\ pc' = [pc EXCEPT ![e] = "pb_pipeline"]
    /\ UNCHANGED <<now, df_lock, last_message_time, COUNT, wakeAt, cur,
                   decode, acks, nacks, df, appendedAt, loadFailed, sigBuffer>>

\* lines 303-328: validation, transformation and the post-validation filters,
\* which complete or raise into the except clause of line 334 (the frame of
\* an empty buffer has no OPD_DATE column, and line 308 raises KeyError)
process_buffer_pipeline(e) ==
    /\ Alive
    /\ pc[e] = "pb_pipeline"
    /\ \E raises \in BOOLEAN :
         /\ df[e] = <<>> => raises
         /\ pc' = [pc EXCEPT ![e] = IF raises THEN "pb_return" ELSE "pb_load"]
    /\ UNCHANGED <<now, df_lock, message_buffer, last_message_time, COUNT,
                   wakeAt, cur, decode, acks, nacks, df, appendedAt, drained,
                   loadFailed, sigBuffer>>

\* What a failed load leaves in message_buffer: nothing is put back.
process_buffer_after_failed_load(buf, batch) == buf

\* lines 331-332: load_breadcrumb_data(df, logger=logger) returns or raises;
\* with rows to load it raises when require_env does (lines 96-101)
process_buffer_load(e) ==
    /\ Alive
    /\ pc[e] = "pb_load"
    /\ \E raises \in IF /\ df[e] # <<>>
                         /\ \E var \in connect_env : require_env(var) = "EnvironmentError"
                        THEN {TRUE} ELSE BOOLEAN :
         /\ pc' = [pc EXCEPT ![e] = "pb_return"]
         /\ loadFailed' = IF raises THEN loadFailed \cup Range(df[e]) ELSE loadFailed
         /\ message_buffer' = IF raises
                                THEN process_buffer_after_failed_load(message_buffer, df[e])
                                ELSE message_buffer
    /\ UNCHANGED <<now, df_lock, last_message_time, COUNT, wakeAt, cur,
                   decode, acks, nacks, df, appendedAt, drained, sigBuffer>>

(***************************************************************************)
(* process_and_save (subscriber.py 63-76): the idle poller, a daemon       *)
(* thread.                                                                 *)
(***************************************************************************)
\* line 70: time_since_last_message >= idle_threshold
IdleLongEnough(time_since_last_message) == time_since_last_message >= idle_threshold

\* lines 66-70: time.sleep returns, the elapsed time is computed and compared
process_and_save_poll ==
    /\ Alive
    /\ pc[Poller] = "sleep"
    /\ now >= wakeAt
    /\ IF IdleLongEnough(now - last_message_time)
         THEN pc' = [pc EXCEPT ![Poller] = "acquire"] /\ wakeAt' = wakeAt
         ELSE pc' = pc /\ wakeAt' = now + idle_check_interval
    /\ UNCHANGED <<now, df_lock, message_buffer, last_message_time, COUNT,
                   cur, decode, acks, nacks, df, appendedAt, drained,
                   loadFailed, sigBuffer>>

\* line 71: with df_lock
process_and_save_lock == df_lock = Free

\* lines 71-76: the lock is taken; an empty buffer is skipped and the lock
\* released at once
process_and_save_acquire ==
    /\ Alive
    /\ pc[Poller] = "acquire"
    /\ process_and_save_lock
    /\ IF message_buffer # <<>>
         THEN /\ df_lock' = Poller
              /\ pc' = [pc EXCEPT ![Poller] = "pb_df"]
              /\ wakeAt' = wakeAt
         ELSE /\ df_lock' = df_lock
              /\ pc' = [pc EXCEPT ![Poller] = "sleep"]
              /\ wakeAt' = now + idle_check_interval
    /\ UNCHANGED <<now, message_buffer, last_message_time, COUNT, cur, decode,
                   acks, nacks, df, appendedAt, drained, loadFailed, sigBuffer>>

\* Mutant: an exception of the flush leaves process_buffer and ends the
\* poller thread; the with block releases df_lock on the way out.
process_and_save_propagates ==
    /\ Alive
    /\ pc[Poller] = "pb_return"
    /\ df_lock' = IF df_lock = Poller THEN Free ELSE df_lock
    /\ df' = [df EXCEPT ![Poller] = <<>>]
    /\ pc' = [pc EXCEPT ![Poller] = "dead"]
    /\ wakeAt' = wakeAt
    /\ UNCHANGED <<now, message_buffer, last_message_time, COUNT, cur, decode,
                   acks, nacks, appendedAt, drained, loadFailed, sigBuffer>>

\* process_buffer has returned: the with block of line 71 ends, the loop
\* goes back to time.sleep
process_and_save_release ==
    /\ Alive
    /\ pc[Poller] = "pb_return"
    /\ df_lock' = IF df_lock = Poller THEN Free ELSE df_lock
    /\ df' = [df EXCEPT ![Poller] = <<>>]
    /\ pc' = [pc EXCEPT ![Poller] = "sleep"]
    /\ wakeAt' = now + idle_check_interval
    /\ UNCHANGED <<now, message_buffer, last_message_time, COUNT, cur, decode,
                   acks, nacks, appendedAt, drained, loadFailed, sigBuffer>>

(***************************************************************************)
(* The main thread: main's sleep loop (369-371) and                        *)
(* shutdown_signal_handler (338-343), which Python runs on the main        *)
(* thread.  One SIGTERM is delivered.                                      *)
(***************************************************************************)
\* Mutant: the handler flushes only after the idle threshold, as the poller does.
shutdown_signal_handler_when_idle == IdleLongEnough(now - last_message_time)

\* lines 340-341: the handler calls process_buffer whatever the idle time
shutdown_signal_handler_flushes == TRUE

\* SIGTERM arrives: line 339
SIGTERM ==
    /\ Alive
    /\ pc[Main] = "run"
    /\ sigBuffer' = sigBuffer \cup Range(message_buffer)
    /\ pc' = [pc EXCEPT ![Main] = IF shutdown_signal_handler_flushes THEN "h_lock" ELSE "h_exit"]
    /\ UNCHANGED <<now, df_lock, message_buffer, last_message_time, COUNT,
                   wakeAt, cur, decode, acks, nacks, df, appendedAt, drained,
                   loadFailed>>

\* Mutant: the handler calls process_buffer without taking df_lock.
shutdown_signal_handler_unlocked == TRUE

\* line 340: with df_lock
shutdown_signal_handler_lock == df_lock = Free

shutdown_signal_handler_acquire ==
    /\ Alive
    /\ pc[Main] = "h_lock"
    /\ shutdown_signal_handler_lock
    /\ df_lock' = Main
    /\ pc' = [pc EXCEPT ![Main] = "pb_df"]
    /\ UNCHANGED <<now, message_buffer, last_message_time, COUNT, wakeAt, cur,
                   decode, acks, nacks, df, appendedAt, drained, loadFailed,
                   sigBuffer>>

\* process_buffer has returned: the with block of line 340 ends, line 342
shutdown_signal_handler_release ==
    /\ Alive
    /\ pc[Main] = "pb_return"
    /\ df_lock' = IF df_lock = Main THEN Free ELSE df_lock
    /\ df' = [df EXCEPT ![Main] = <<>>]
    /\ pc' = [pc EXCEPT ![Main] = "h_exit"]
    /\ UNCHANGED <<now, message_buffer, last_message_time, COUNT, wakeAt, cur,
                   decode, acks, nacks, appendedAt, drained, loadFailed,
                   sigBuffer>>

\* line 343: exit(0)
shutdown_signal_handler_exit ==
    /\ pc[Main] = "h_exit"
    /\ pc' = [pc EXCEPT ![Main] = "exited"]
    /\ UNCHANGED <<now, df_lock, message_buffer, last_message_time, COUNT,
                   wakeAt, cur, decode, acks, nacks, df, appendedAt, drained,
                   loadFailed, sigBuffer>>

(***************************************************************************)
(* The clock.  A step of a thread takes no time; time passes only while    *)
(* every thread sleeps, waits for a message, a signal or df_lock, or       *)
(* loads into the store.                                                   *)
(***************************************************************************)
Waiting(t) ==
    \/ pc[t] \in {"idle", "run", "pb_load"}
    \/ pc[t] = "sleep" /\ now < wakeAt
    \/ pc[t] \in {"lock", "acquire", "h_lock"} /\ df_lock # Free

Tick ==
    /\ Alive
    /\ now < MaxTime
    /\ \A t \in Threads : Waiting(t)
    /\ now' = now + TickLen
    /\ UNCHANGED <<pc, df_lock, message_buffer, last_message_time, COUNT,
                   wakeAt, cur, decode, acks, nacks, df, appendedAt, drained,
                   loadFailed, sigBuffer>>

(***************************************************************************)
(* load_to_postgres.py: the frames load_breadcrumb_data is called with.    *)
(* A row carries the columns the loader reads; tstamp is NaT when the      *)
(* timestamp could not be derived.                                         *)
(***************************************************************************)
\* pd.NaT, which to_csv writes as an empty field and COPY reads as NULL
NaT == 0
TStamps == {1}
TripIds == {1, 2}
VehicleIds == {1, 2}

\* A row of the frame.  The speed follows the vehicle, so that two rows with
\* one key differ in the payload of the trip and of the breadcrumb.
DfRow(ts, tr, v) ==
    [tstamp |-> ts, gps_latitude |-> 45, gps_longitude |-> -122, speed |-> 10 * v,
     event_no_trip |-> tr, vehicle_id |-> v, service_key |-> "Weekday"]

\* The rows with a timestamp, and for each trip one row without.
DfRows ==
    {DfRow(ts, tr, v) : ts \in TStamps, tr \in TripIds, v \in VehicleIds}
      \cup {DfRow(NaT, tr, v) : tr \in TripIds, v \in {CHOOSE x \in VehicleIds : TRUE}}

Frames == UNION {[1..n -> DfRows] : n \in 0..MaxBatch}

\* lines 61-65: the columns of breadcrumb_df
breadcrumb_row(r) ==
    [tstamp |-> r.tstamp, latitude |-> r.gps_latitude, longitude |-> r.gps_longitude,
     speed |-> r.speed, trip_id |-> r.event_no_trip]

\* lines 67-72: the columns of trip_df, with route_id = -1 and direction = '0'
trip_row(r) ==
    [trip_id |-> r.event_no_trip, route_id |-> -1, vehicle_id |-> r.vehicle_id,
     service_key |-> r.service_key, direction |-> "0"]

\* The rows of s at the indexes that satisfy keep, in order.
RECURSIVE KeepIndexes(_, _, _)
KeepIndexes(s, keep, i) ==
    IF i > Len(s) THEN <<>>
    ELSE (IF i \in keep THEN <<s[i]>> ELSE <<>>) \o KeepIndexes(s, keep, i + 1)

trip_key(r) == r.trip_id
breadcrumb_key(r) == <<r.tstamp, r.trip_id>>

\* line 74: trip_df.drop_duplicates(subset="trip_id"), keep='first'
trip_drop_duplicates(s) ==
    KeepIndexes(s, {i \in DOMAIN s : \A j \in 1..(i - 1) : trip_key(s[j]) # trip_key(s[i])}, 1)

\* line 75: breadcrumb_df.drop_duplicates(subset=["tstamp", "trip_id"]), keep='first'
breadcrumb_drop_duplicates(s) ==
    KeepIndexes(s, {i \in DOMAIN s :
                      \A j \in 1..(i - 1) : breadcrumb_key(s[j]) # breadcrumb_key(s[i])}, 1)

\* line 76: breadcrumb_df[breadcrumb_df['trip_id'].isin(trip_df['trip_id'])]
breadcrumb_filter(bdf, tdf) ==
    KeepIndexes(bdf, {i \in DOMAIN bdf : \E k \in DOMAIN tdf : tdf[k].trip_id = bdf[i].trip_id}, 1)

trip_df(frame) == trip_drop_duplicates([i \in DOMAIN frame |-> trip_row(frame[i])])

breadcrumb_df(frame) ==
    breadcrumb_filter(breadcrumb_drop_duplicates([i \in DOMAIN frame |-> breadcrumb_row(frame[i])]),
                      trip_df(frame))

(***************************************************************************)
(* The two INSERT statements.  A statement gives the table as the          *)
(* transaction sees it afterwards, or the error PostgreSQL raises.         *)
(***************************************************************************)
\* INSERT ... SELECT * FROM staged ON CONFLICT (key) DO NOTHING: the staged
\* rows are taken in order; a row whose key is in the table is skipped.
RECURSIVE trip_on_conflict_do_nothing(_, _)
trip_on_conflict_do_nothing(table, staged) ==
    IF staged = <<>> THEN table
    ELSE trip_on_conflict_do_nothing(
             IF \E t \in table : trip_key(t) = trip_key(Head(staged))
               THEN table ELSE table \cup {Head(staged)},
             Tail(staged))

RECURSIVE breadcrumb_on_conflict_do_nothing(_, _)
breadcrumb_on_conflict_do_nothing(table, staged) ==
    IF staged = <<>> THEN table
    ELSE breadcrumb_on_conflict_do_nothing(
             IF \E b \in table : breadcrumb_key(b) = breadcrumb_key(Head(staged))
               THEN table ELSE table \cup {Head(staged)},
             Tail(staged))

\* Mutant: INSERT INTO trip without ON CONFLICT: a staged trip_id that is in
\* the table violates the primary key.
insert_trip_plain(table, staged) ==
    IF \E i \in DOMAIN staged : \E t \in table : trip_key(t) = trip_key(staged[i])
      THEN [error |-> "UniqueViolation", rows |-> table]
      ELSE [error |-> "", rows |-> table \cup Range(staged)]

\* Mutant: the INSERT INTO trip is left out.
insert_trip_skipped(table, staged) == [error |-> "", rows |-> table]

\* Mutant: ON CONFLICT (trip_id) DO UPDATE SET every column to the staged
\* row's: the last staged row of a trip_id replaces the row of the table.
RECURSIVE trip_on_conflict_do_update(_, _)
trip_on_conflict_do_update(table, staged) ==
    IF staged = <<>> THEN table
    ELSE trip_on_conflict_do_update(
             {t \in table : trip_key(t) # trip_key(Head(staged))} \cup {Head(staged)},
             Tail(staged))

insert_trip_upsert(table, staged) ==
    [error |-> "", rows |-> trip_on_conflict_do_update(table, staged)]

\* lines 141-145: INSERT INTO trip ... ON CONFLICT (trip_id) DO NOTHING
insert_trip(table, staged) ==
    [error |-> "", rows |-> trip_on_conflict_do_nothing(table, staged)]

\* Mutant: ON CONFLICT (tstamp, trip_id) DO UPDATE SET speed = breadcrumb.speed +
\* EXCLUDED.speed, an upsert that accumulates.
RECURSIVE breadcrumb_on_conflict_accumulate(_, _)
breadcrumb_on_conflict_accumulate(table, staged) ==
    IF staged = <<>> THEN table
    ELSE breadcrumb_on_conflict_accumulate(
             {IF breadcrumb_key(b) = breadcrumb_key(Head(staged))
                THEN [b EXCEPT !.speed = @ + Head(staged).speed] ELSE b : b \in table}
               \cup {b \in {Head(staged)} :
                       \A x \in table : breadcrumb_key(x) # breadcrumb_key(b)},
             Tail(staged))

insert_breadcrumb_accumulate(table, staged) ==
    IF \E i \in DOMAIN staged : staged[i].tstamp = NaT
      THEN [error |-> "NotNullViolation", rows |-> table]
      ELSE [error |-> "", rows |-> breadcrumb_on_conflict_accumulate(table, staged)]

\* lines 146-150: INSERT INTO breadcrumb ... ON CONFLICT (tstamp, trip_id) DO
\* NOTHING; tstamp is a primary key column (line 42), so a NULL tstamp is an
\* error that ends the statement.
insert_breadcrumb(table, staged) ==
    IF \E i \in DOMAIN staged : staged[i].tstamp = NaT
      THEN [error |-> "NotNullViolation", rows |-> table]
      ELSE [error |-> "", rows |-> breadcrumb_on_conflict_do_nothing(table, staged)]

InitLoad ==
    /\ trip = {}
    /\ breadcrumb = {}
    /\ txTrip = {}
    /\ txBreadcrumb = {}
    /\ tmp_trip = <<>>
    /\ tmp_breadcrumb = <<>>
    /\ new_trip_rows = 0
    /\ new_breadcrumb_rows = 0
    /\ lpc = "idle"
    /\ ldf = <<>>
    /\ lresult = "none"
    /\ reload = FALSE

(***************************************************************************)
(* load_breadcrumb_data (load_to_postgres.py 48-167), statement by         *)
(* statement.                                                              *)
(***************************************************************************)
\* lines 56-80: the call; an empty breadcrumb_df returns 0 before connecting
\* Mutant: the check for an empty breadcrumb_df is left out.
breadcrumb_df_never_empty(frame) == FALSE

\* line 78: breadcrumb_df.empty
breadcrumb_df_empty(frame) == breadcrumb_df(frame) = <<>>

load_breadcrumb_data_from(frames) ==
    /\ lpc = "idle"
    /\ \E frame \in frames :
         /\ ldf' = frame
         /\ reload' = (frame = ldf /\ lresult \in {"returned 0", "returned 1"})
         /\ IF breadcrumb_df_empty(frame)
              THEN lpc' = "idle" /\ lresult' = "returned 0"
              ELSE lpc' = "connect" /\ lresult' = "none"
    /\ UNCHANGED <<trip, breadcrumb, txTrip, txBreadcrumb, tmp_trip,
                   tmp_breadcrumb, new_trip_rows, new_breadcrumb_rows>>

load_breadcrumb_data_call == load_breadcrumb_data_from(Frames)

\* An exception leaves load_breadcrumb_data: the connection is dropped with
\* its transaction open, which rolls it back, and with its temp tables.
load_abort(error) ==
    /\ txTrip' = trip
    /\ txBreadcrumb' = breadcrumb
    /\ tmp_trip' = <<>>
    /\ tmp_breadcrumb' = <<>>
    /\ lpc' = "idle"
    /\ lresult' = error
    /\ UNCHANGED <<trip, breadcrumb, new_trip_rows, new_breadcrumb_rows, ldf, reload>>

\* lines 96-138: the arguments of connect, which require_env reads from the
\* environment, then connect, create_tables (and its commit), the temp
\* tables, the two COPYs and the two counts
load_breadcrumb_data_stage ==
    /\ lpc = "connect"
    /\ IF \E var \in connect_env : require_env(var) = "EnvironmentError"
         THEN load_abort("EnvironmentError")
         ELSE /\ txTrip' = trip
              /\ txBreadcrumb' = breadcrumb
              /\ tmp_trip' = trip_df(ldf)
              /\ tmp_breadcrumb' = breadcrumb_df(ldf)
              /\ new_trip_rows' = Len(trip_df(ldf))
              /\ new_breadcrumb_rows' = Len(breadcrumb_df(ldf))
              /\ lpc' = "staged"
              /\ UNCHANGED <<trip, breadcrumb, ldf, lresult, reload>>

\* Mutant: the connection is in autocommit mode, and the rows of the trip
\* INSERT are in the table as soon as the statement has run.
load_breadcrumb_data_insert_trip_autocommit ==
    /\ lpc = "staged"
    /\ LET r == insert_trip(txTrip, tmp_trip) IN
         IF r.error = ""
           THEN /\ txTrip' = r.rows
                /\ trip' = r.rows
                /\ lpc' = "trip_inserted"
                /\ UNCHANGED <<breadcrumb, txBreadcrumb, tmp_trip,
                               tmp_breadcrumb, new_trip_rows,
                               new_breadcrumb_rows, ldf, lresult, reload>>
           ELSE load_abort(r.error)

\* lines 141-145
load_breadcrumb_data_insert_trip ==
    /\ lpc = "staged"
    /\ LET r == insert_trip(txTrip, tmp_trip) IN
         IF r.error = ""
           THEN /\ txTrip' = r.rows
                /\ lpc' = "trip_inserted"
                /\ UNCHANGED <<trip, breadcrumb, txBreadcrumb, tmp_trip,
                               tmp_breadcrumb, new_trip_rows,
                               new_breadcrumb_rows, ldf, lresult, reload>>
           ELSE load_abort(r.error)

\* lines 146-150
load_breadcrumb_data_insert_breadcrumb ==
    /\ lpc = "trip_inserted"
    /\ LET r == insert_breadcrumb(txBreadcrumb, tmp_breadcrumb) IN
         IF r.error = ""
           THEN /\ txBreadcrumb' = r.rows
                /\ lpc' = "breadcrumb_inserted"
                /\ UNCHANGED <<trip, breadcrumb, txTrip, tmp_trip,
                               tmp_breadcrumb, new_trip_rows,
                               new_breadcrumb_rows, ldf, lresult, reload>>
           ELSE load_abort(r.error)

\* line 152: conn.commit()
load_breadcrumb_data_commit ==
    /\ lpc = "breadcrumb_inserted"
    /\ trip' = txTrip
    /\ breadcrumb' = txBreadcrumb
    /\ lpc' = "committed"
    /\ UNCHANGED <<txTrip, txBreadcrumb, tmp_trip, tmp_breadcrumb,
                   new_trip_rows, new_breadcrumb_rows, ldf, lresult, reload>>

\* lines 154-167: the indexes, their commit, close, the two log lines, return 1
load_breadcrumb_data_return ==
    /\ lpc = "committed"
    /\ tmp_trip' = <<>>
    /\ tmp_breadcrumb' = <<>>
    /\ lpc' = "idle"
    /\ lresult' = "returned 1"
    /\ UNCHANGED <<trip, breadcrumb, txTrip, txBreadcrumb, new_trip_rows,
                   new_breadcrumb_rows, ldf, reload>>

\* The connection fails (psycopg2.OperationalError) at connect or at any
\* statement after it.
load_breadcrumb_data_raise ==
    /\ lpc # "idle"
    /\ load_abort("OperationalError")

(***************************************************************************)
(* load_to_postgres.py: load_stop_event_data (lines 183-246).              *)
(***************************************************************************)
RouteNumbers == {5, 7}
StopVehicles == {CHOOSE v \in VehicleIds : TRUE}

\* A row of the frame save_and_load_data builds.  The service key and the
\* direction follow the route, so that two rows with different routes differ
\* in the three columns the trip table takes.
StopRow(tr, v, r) ==
    [trip_id |-> tr, vehicle_number |-> v, route_number |-> r,
     service_key |-> IF r = 5 THEN "W" ELSE "S", direction |-> IF r = 5 THEN 0 ELSE 1]

\* The assignment cast of stop_event.direction (INTEGER) to trip.direction
\* (TEXT) in line 239.
text(n) == IF n = 0 THEN "0" ELSE "1"

StopRows == {StopRow(tr, v, r) : tr \in TripIds, v \in StopVehicles, r \in RouteNumbers}

StopFrames == UNION {[1..n -> StopRows] : n \in 0..MaxStopRows}

\* line 173: trip_id INTEGER PRIMARY KEY
stop_event_primary_key == <<"trip_id">>
\* line 230: ON CONFLICT (trip_id, vehicle_number)
stop_event_conflict_target == <<"trip_id", "vehicle_number">>

\* The value of a row on the columns of a key.
KeyOf(row, key) == [i \in DOMAIN key |-> row[key[i]]]

\* INSERT ... ON CONFLICT (target) DO NOTHING into a table whose unique key is
\* the target: a staged row whose key is in the table is skipped.
RECURSIVE stop_event_on_conflict_do_nothing(_, _, _)
stop_event_on_conflict_do_nothing(table, staged, target) ==
    IF staged = <<>> THEN table
    ELSE stop_event_on_conflict_do_nothing(
             IF \E x \in table : KeyOf(x, target) = KeyOf(Head(staged), target)
               THEN table ELSE table \cup {Head(staged)},
             Tail(staged), target)

\* lines 227-231: PostgreSQL infers the arbiter index from the conflict
\* target and raises when the table has no unique index on these columns
insert_stop_event(table, staged, key) ==
    IF key # stop_event_conflict_target
      THEN [error |-> "InvalidColumnReference", rows |-> table]
      ELSE [error |-> "",
            rows |-> stop_event_on_conflict_do_nothing(table, staged, stop_event_conflict_target)]

\* lines 234-242: UPDATE trip SET ... FROM stop_event se WHERE trip.trip_id =
\* se.trip_id.  With several matching rows PostgreSQL uses one of them; the
\* result is every table the statement can leave.
update_trip_from(trips, events) ==
    LET Matches(t) == {e \in events : e.trip_id = t.trip_id}
        Updated(t, e) == [t EXCEPT !.route_id = e.route_number,
                                   !.service_key = e.service_key,
                                   !.direction = text(e.direction)]
        Matched == {t \in trips : Matches(t) # {}}
        Choices == {c \in [Matched -> events] : \A t \in Matched : c[t] \in Matches(t)}
    IN {(trips \ Matched) \cup {Updated(t, c[t]) : t \in Matched} : c \in Choices}

\* The schemas the database can have when the program starts: no table
\* stop_event, or a table made before with the unique key line 230 names
\* (CREATE TABLE IF NOT EXISTS then leaves it as it is).
StopEventSchemas == {<<>>, stop_event_conflict_target}

InitStopLoadWith(schemas) ==
    /\ stop_event = {}
    /\ stop_event_key \in schemas
    /\ txStopEvent = {}
    /\ tmp_stop_event = <<>>
    /\ slpc = "idle"
    /\ sldf = <<>>
    /\ slresult = "none"
    /\ slprev = {}

InitStopLoad == InitStopLoadWith({<<>>})

(***************************************************************************)
(* load_stop_event_data, statement by statement.  The two loaders use one  *)
(* database; a call of one starts when no call of the other is running.    *)
(***************************************************************************)
\* lines 184-193: the frame has the required columns; it is written as CSV
load_stop_event_data_call ==
    /\ slpc = "idle"
    /\ lpc = "idle"
    /\ \E frame \in StopFrames :
         /\ sldf' = frame
         /\ slprev' = IF slresult \in {"returned", "InvalidColumnReference"}
                         THEN Range(sldf) ELSE {}
    /\ slpc' = "connect"
    /\ slresult' = "none"
    /\ UNCHANGED <<stop_event, stop_event_key, txStopEvent, tmp_stop_event>>
    /\ UNCHANGED loadVars

\* An exception leaves the with block of line 195: the transaction is rolled
\* back, and the temp table goes with the connection.
load_stop_event_data_abort(error) ==
    /\ txStopEvent' = stop_event
    /\ txTrip' = trip
    /\ tmp_stop_event' = <<>>
    /\ slpc' = "idle"
    /\ slresult' = error
    /\ UNCHANGED <<stop_event, stop_event_key, sldf, slprev>>
    /\ UNCHANGED <<trip, breadcrumb, txBreadcrumb, tmp_trip, tmp_breadcrumb,
                   new_trip_rows, new_breadcrumb_rows, lpc, ldf, lresult, reload>>

\* lines 195-201: the arguments of connect, connect, then
\* create_stop_event_table with its commit
load_stop_event_data_create_stop_event_table ==
    /\ slpc = "connect"
    /\ IF \E var \in connect_env : require_env(var) = "EnvironmentError"
         THEN load_stop_event_data_abort("EnvironmentError")
         ELSE /\ stop_event_key' = IF stop_event_key = <<>> THEN stop_event_primary_key
                                                           ELSE stop_event_key
              /\ slpc' = "created"
              /\ UNCHANGED <<stop_event, txStopEvent, tmp_stop_event, sldf, slresult,
                             slprev>>
              /\ UNCHANGED loadVars

\* lines 203-223: the temp table, the COPY and the count
load_stop_event_data_stage ==
    /\ slpc = "created"
    /\ tmp_stop_event' = sldf
    /\ txStopEvent' = stop_event
    /\ txTrip' = trip
    /\ slpc' = "staged"
    /\ UNCHANGED <<stop_event, stop_event_key, sldf, slresult, slprev>>
    /\ UNCHANGED <<trip, breadcrumb, txBreadcrumb, tmp_trip, tmp_breadcrumb,
                   new_trip_rows, new_breadcrumb_rows, lpc, ldf, lresult, reload>>

\* lines 227-231
load_stop_event_data_insert ==
    /\ slpc = "staged"
    /\ LET r == insert_stop_event(txStopEvent, tmp_stop_event, stop_event_key) IN
         IF r.error # ""
           THEN load_stop_event_data_abort(r.error)
           ELSE /\ txStopEvent' = r.rows
                /\ slpc' = "inserted"
                /\ UNCHANGED <<stop_event, stop_event_key, tmp_stop_event, sldf,
                               slresult, slprev>>
                /\ UNCHANGED loadVars

\* lines 234-242
load_stop_event_data_update_trip ==
    /\ slpc = "inserted"
    /\ txTrip' \in update_trip_from(txTrip, txStopEvent)
    /\ slpc' = "updated"
    /\ UNCHANGED stopLoadVarsButPc
    /\ UNCHANGED <<trip, breadcrumb, txBreadcrumb, tmp_trip, tmp_breadcrumb,
                   new_trip_rows, new_breadcrumb_rows, lpc, ldf, lresult, reload>>

\* lines 244-246, and the end of the with block
load_stop_event_data_commit ==
    /\ slpc = "updated"
    /\ stop_event' = txStopEvent
    /\ trip' = txTrip
    /\ tmp_stop_event' = <<>>
    /\ slpc' = "idle"
    /\ slresult' = "returned"
    /\ UNCHANGED <<stop_event_key, txStopEvent, sldf, slprev>>
    /\ UNCHANGED <<breadcrumb, txTrip, txBreadcrumb, tmp_trip, tmp_breadcrumb,
                   new_trip_rows, new_breadcrumb_rows, lpc, ldf, lresult, reload>>

\* The connection fails or is lost (psycopg2.OperationalError) during the call.
load_stop_event_data_raise ==
    /\ slpc # "idle"
    /\ load_stop_event_data_abort("OperationalError")

(***************************************************************************)
(* subscriber_stop.py: StopEventSubscriber.                                *)
(***************************************************************************)
\* line 74: (now - self.last_message_time).total_seconds() > 180
stop_idle_threshold == 180
\* line 79: self.shutdown_event.wait(timeout=60)
stop_wait_timeout == 60
\* line 88: df.shape[1] < 6
stop_min_columns == 6

StopMaxTime == MaxTicks * stop_wait_timeout

StopThreads == {"callback", "monitor", "main"}
\* the threads that call save_and_load_data: monitor_inactivity and run
StopFlushers == {"monitor", "main"}
SaveStages == {"s_enter", "s_df", "s_load", "s_skip", "s_finally"}

StopAlive == stop_pc["main"] # "exited"

InSaveAndLoad(t) == stop_pc[t] \in SaveStages \ {"s_enter"}

InitStop ==
    /\ stop_now = 0
    /\ stop_pc = [t \in StopThreads |->
                    CASE t = "callback" -> "idle"
                      [] t = "monitor" -> "check"
                      [] t = "main" -> "run"]
    /\ rows = <<>>
    /\ received_any_message = FALSE
    /\ self_last_message_time = 0
    /\ shutdown_event = FALSE
    /\ stop_wakeAt = 0
    /\ stop_cur = 0
    /\ stop_decode = [m \in Msgs |-> "pending"]
    /\ stop_acked = {}
    /\ stop_nacked = {}
    /\ stop_df = [t \in StopFlushers |-> <<>>]
    /\ stopLoadFailed = {}
    /\ stopRetried = {}
    /\ stopBatched = [m \in Msgs |-> 0]

StopUndelivered == {m \in Msgs : stop_decode[m] = "pending"}

\* The number of tab-separated fields of a decoded message.
stop_fields(kind) == IF kind = "short" THEN stop_min_columns - 1 ELSE stop_min_columns

\* lines 59-61: Pub/Sub delivers a message; decode and split complete or raise
stop_callback ==
    /\ StopAlive
    /\ stop_pc["callback"] = "idle"
    /\ StopUndelivered # {}
    /\ LET m == CHOOSE x \in StopUndelivered : \A y \in StopUndelivered : x <= y IN
         \E kind \in {"ok", "short", "failed"} :
            /\ stop_decode' = [stop_decode EXCEPT ![m] = kind]
            /\ stop_cur' = m
            /\ stop_pc' = [stop_pc EXCEPT !["callback"] =
                             IF kind = "failed" THEN "nack" ELSE "append"]
    /\ UNCHANGED <<stop_now, rows, received_any_message,
                   self_last_message_time, shutdown_event, stop_wakeAt,
                   stop_acked, stop_nacked, stop_df, stopLoadFailed,
                   stopRetried,
                   stopBatched>>

\* line 62: self.rows.append(decoded)
stop_callback_append ==
    /\ StopAlive
    /\ stop_pc["callback"] = "append"
    /\ rows' = Append(rows, stop_cur)
    /\ stop_pc' = [stop_pc EXCEPT !["callback"] = "flag"]
    /\ UNCHANGED <<stop_now, received_any_message, self_last_message_time,
                   shutdown_event, stop_wakeAt, stop_cur, stop_decode,
                   stop_acked, stop_nacked, stop_df, stopLoadFailed,
                   stopRetried,
                   stopBatched>>

\* line 63: self.received_any_message = True
stop_callback_flag ==
    /\ StopAlive
    /\ stop_pc["callback"] = "flag"
    /\ received_any_message' = TRUE
    /\ stop_pc' = [stop_pc EXCEPT !["callback"] = "stamp"]
    /\ UNCHANGED <<stop_now, rows, self_last_message_time, shutdown_event,
                   stop_wakeAt, stop_cur, stop_decode, stop_acked,
                   stop_nacked, stop_df, stopLoadFailed, stopRetried,
                   stopBatched>>

\* line 64: self.last_message_time = datetime.datetime.now()
stop_callback_stamp ==
    /\ StopAlive
    /\ stop_pc["callback"] = "stamp"
    /\ self_last_message_time' = stop_now
    /\ stop_pc' = [stop_pc EXCEPT !["callback"] = "ack"]
    /\ UNCHANGED <<stop_now, rows, received_any_message, shutdown_event,
                   stop_wakeAt, stop_cur, stop_decode, stop_acked,
                   stop_nacked, stop_df, stopLoadFailed, stopRetried,
                   stopBatched>>

\* line 65: message.ack()
stop_callback_ack ==
    /\ StopAlive
    /\ stop_pc["callback"] = "ack"
    /\ stop_acked' = stop_acked \cup {stop_cur}
    /\ stop_cur' = 0
    /\ stop_pc' = [stop_pc EXCEPT !["callback"] = "idle"]
    /\ UNCHANGED <<stop_now, rows, received_any_message,
                   self_last_message_time, shutdown_event, stop_wakeAt,
                   stop_decode, stop_nacked, stop_df, stopLoadFailed,
                   stopRetried,
                   stopBatched>>

\* lines 66-68: the except branch
stop_callback_nack ==
    /\ StopAlive
    /\ stop_pc["callback"] = "nack"
    /\ stop_nacked' = stop_nacked \cup {stop_cur}
    /\ stop_cur' = 0
    /\ stop_pc' = [stop_pc EXCEPT !["callback"] = "idle"]
    /\ UNCHANGED <<stop_now, rows, received_any_message,
                   self_last_message_time, shutdown_event, stop_wakeAt,
                   stop_decode, stop_acked, stop_df, stopLoadFailed,
                   stopRetried,
                   stopBatched>>

(***************************************************************************)
(* save_and_load_data (lines 81-103), run by the monitor and by the main   *)
(* thread, with no lock.  ret is where the caller continues.               *)
(***************************************************************************)
save_and_load_data_return(t) == IF t = "monitor" THEN "reset" ELSE "log"

\* lines 82-84: if not self.rows: return
save_and_load_data_enter(t) ==
    /\ StopAlive
    /\ stop_pc[t] = "s_enter"
    /\ stop_pc' = [stop_pc EXCEPT ![t] =
                     IF rows = <<>> THEN save_and_load_data_return(t) ELSE "s_df"]
    /\ UNCHANGED <<stop_now, rows, received_any_message,
                   self_last_message_time, shutdown_event, stop_wakeAt,
                   stop_cur, stop_decode, stop_acked, stop_nacked, stop_df,
                   stopLoadFailed, stopRetried,
                   stopBatched>>

\* df.shape[1]: the longest row gives the number of columns
stop_shape(frame) ==
    IF \E i \in DOMAIN frame : stop_decode[frame[i]] = "ok"
      THEN stop_fields("ok") ELSE stop_fields("short")

\* lines 87-88: df = pd.DataFrame(self.rows) and the test of its shape
save_and_load_data_df(t) ==
    /\ StopAlive
    /\ stop_pc[t] = "s_df"
    /\ stop_df' = [stop_df EXCEPT ![t] = rows]
    /\ stopRetried' = stopRetried \cup (Range(rows) \cap stopLoadFailed)
    /\ stopBatched' = [m \in Msgs |-> stopBatched[m] + Occurrences(rows, m)]
    /\ stop_pc' = [stop_pc EXCEPT ![t] =
                     IF rows = <<>> \/ stop_shape(rows) < stop_min_columns
                       THEN "s_skip" ELSE "s_load"]
    /\ UNCHANGED <<stop_now, rows, received_any_message,
                   self_last_message_time, shutdown_event, stop_wakeAt,
                   stop_cur, stop_decode, stop_acked, stop_nacked,
                   stopLoadFailed>>

\* lines 89-91: "Insufficient data": self.rows.clear(), return, and the
\* finally clause clears again
save_and_load_data_skip(t) ==
    /\ StopAlive
    /\ stop_pc[t] = "s_skip"
    /\ rows' = <<>>
    /\ stop_df' = [stop_df EXCEPT ![t] = <<>>]
    /\ stop_pc' = [stop_pc EXCEPT ![t] = save_and_load_data_return(t)]
    /\ UNCHANGED <<stop_now, received_any_message, self_last_message_time,
                   shutdown_event, stop_wakeAt, stop_cur, stop_decode,
                   stop_acked, stop_nacked, stopLoadFailed, stopRetried,
                   stopBatched>>

\* lines 93-101: the column selection and load_stop_event_data(df), which
\* completes or raises; the except clause logs the error
save_and_load_data_load(t) ==
    /\ StopAlive
    /\ stop_pc[t] = "s_load"
    /\ \E raises \in BOOLEAN :
         stopLoadFailed' = IF raises THEN stopLoadFailed \cup Range(stop_df[t])
                           ELSE stopLoadFailed
    /\ stop_pc' = [stop_pc EXCEPT ![t] = "s_finally"]
    /\ UNCHANGED <<stop_now, rows, received_any_message,
                   self_last_message_time, shutdown_event, stop_wakeAt,
                   stop_cur, stop_decode, stop_acked, stop_nacked, stop_df,
                   stopRetried,
                   stopBatched>>

\* lines 102-103: finally: self.rows.clear()
save_and_load_data_finally(t) ==
    /\ StopAlive
    /\ stop_pc[t] = "s_finally"
    /\ rows' = <<>>
    /\ stop_df' = [stop_df EXCEPT ![t] = <<>>]
    /\ stop_pc' = [stop_pc EXCEPT ![t] = save_and_load_data_return(t)]
    /\ UNCHANGED <<stop_now, received_any_message, self_last_message_time,
                   shutdown_event, stop_wakeAt, stop_cur, stop_decode,
                   stop_acked, stop_nacked, stopLoadFailed, stopRetried,
                   stopBatched>>

(***************************************************************************)
(* monitor_inactivity (lines 70-79).                                       *)
(***************************************************************************)
\* line 74
StopIdleLongEnough(elapsed) == elapsed > stop_idle_threshold

\* lines 71-78: the loop test and the inactivity test
monitor_inactivity_check ==
    /\ StopAlive
    /\ stop_pc["monitor"] = "check"
    /\ IF shutdown_event
         THEN stop_pc' = [stop_pc EXCEPT !["monitor"] = "done"] /\ UNCHANGED stop_wakeAt
         ELSE IF received_any_message /\ StopIdleLongEnough(stop_now - self_last_message_time)
           THEN stop_pc' = [stop_pc EXCEPT !["monitor"] = "s_enter"] /\ UNCHANGED stop_wakeAt
           ELSE /\ stop_pc' = [stop_pc EXCEPT !["monitor"] = "wait"]
                /\ stop_wakeAt' = stop_now + stop_wait_timeout
    /\ UNCHANGED <<stop_now, rows, received_any_message,
                   self_last_message_time, shutdown_event, stop_cur,
                   stop_decode, stop_acked, stop_nacked, stop_df,
                   stopLoadFailed, stopRetried,
                   stopBatched>>

\* lines 76 and 79: self.received_any_message = False, then the wait
monitor_inactivity_reset ==
    /\ StopAlive
    /\ stop_pc["monitor"] = "reset"
    /\ received_any_message' = FALSE
    /\ stop_wakeAt' = stop_now + stop_wait_timeout
    /\ stop_pc' = [stop_pc EXCEPT !["monitor"] = "wait"]
    /\ UNCHANGED <<stop_now, rows, self_last_message_time, shutdown_event,
                   stop_cur, stop_decode, stop_acked, stop_nacked, stop_df,
                   stopLoadFailed, stopRetried,
                   stopBatched>>

\* line 79: wait(timeout=60) returns at the timeout or when the event is set
monitor_inactivity_wake ==
    /\ StopAlive
    /\ stop_pc["monitor"] = "wait"
    /\ shutdown_event \/ stop_now >= stop_wakeAt
    /\ stop_pc' = [stop_pc EXCEPT !["monitor"] = "check"]
    /\ UNCHANGED <<stop_now, rows, received_any_message,
                   self_last_message_time, shutdown_event, stop_wakeAt,
                   stop_cur, stop_decode, stop_acked, stop_nacked, stop_df,
                   stopLoadFailed, stopRetried,
                   stopBatched>>

(***************************************************************************)
(* run (lines 106-131): the main thread.                                   *)
(***************************************************************************)
\* lines 115-118: SIGTERM or SIGINT arrives while the main thread waits
handle_signal ==
    /\ stop_pc["main"] = "run"
    /\ ~shutdown_event
    /\ shutdown_event' = TRUE
    /\ UNCHANGED <<stop_now, stop_pc, rows, received_any_message,
                   self_last_message_time, stop_wakeAt, stop_cur, stop_decode,
                   stop_acked, stop_nacked, stop_df, stopLoadFailed,
                   stopRetried,
                   stopBatched>>

\* lines 124-129: the wait loop ends and the finally clause starts the
\* shutdown flush
run_finally ==
    /\ stop_pc["main"] = "run"
    /\ shutdown_event
    /\ stop_pc' = [stop_pc EXCEPT !["main"] = "s_enter"]
    /\ UNCHANGED <<stop_now, rows, received_any_message,
                   self_last_message_time, shutdown_event, stop_wakeAt,
                   stop_cur, stop_decode, stop_acked, stop_nacked, stop_df,
                   stopLoadFailed, stopRetried,
                   stopBatched>>

\* lines 130-131: the two "Total messages processed" lines; run returns and
\* the process ends
run_exit ==
    /\ stop_pc["main"] = "log"
    /\ stop_pc' = [stop_pc EXCEPT !["main"] = "exited"]
    /\ UNCHANGED <<stop_now, rows, received_any_message,
                   self_last_message_time, shutdown_event, stop_wakeAt,
                   stop_cur, stop_decode, stop_acked, stop_nacked, stop_df,
                   stopLoadFailed, stopRetried,
                   stopBatched>>

(***************************************************************************)
(* Time passes only when no thread can take a step: the callback waits for *)
(* a message, the monitor waits, the main thread waits for a signal, or a  *)
(* thread is inside load_stop_event_data.                                  *)
(***************************************************************************)
StopWaiting(t) ==
    \/ stop_pc[t] \in {"idle", "run", "s_load", "done", "exited"}
    \/ stop_pc[t] = "wait" /\ ~shutdown_event /\ stop_now < stop_wakeAt

StopTick ==
    /\ StopAlive
    /\ stop_now < StopMaxTime
    /\ \A t \in StopThreads : StopWaiting(t)
    /\ ~(stop_pc["main"] = "run" /\ shutdown_event)
    /\ stop_now' = stop_now + stop_wait_timeout
    /\ UNCHANGED <<stop_pc, rows, received_any_message,
                   self_last_message_time, shutdown_event, stop_wakeAt,
                   stop_cur, stop_decode, stop_acked, stop_nacked, stop_df,
                   stopLoadFailed, stopRetried,
                   stopBatched>>

(***************************************************************************)
(* subscriber.py: the stages of process_buffer over concrete rows.  A row  *)
(* keeps the index pandas gave it in the frame built from the buffer.  A   *)
(* nullable value is <<>> when null and <<v>> otherwise.  A speed is the   *)
(* pair <<delta_m, delta_t>> of the division that derives it, delta_t > 0. *)
(***************************************************************************)
NULL == <<>>
PipeTrips == {1, 2}
PipeTimes == {0, 10}
PipeMeters == {0, 800, 850}
\* a Monday, as date.weekday() gives it
PipeDates == {0}
\* (GPS_LATITUDE, GPS_LONGITUDE): both zero, and one or the other missing
PipeOddGps == {<<<<0>>, <<0>>>>, <<NULL, <<-122>>>>, <<<<45>>, NULL>>}

Record(tr, t, m, gps) ==
    [EVENT_NO_TRIP |-> tr, OPD_DATE |-> CHOOSE d \in PipeDates : TRUE, ACT_TIME |-> t,
     METERS |-> m, GPS_LATITUDE |-> gps[1], GPS_LONGITUDE |-> gps[2]]

\* The records of a batch: every tr, time and distance with both
\* coordinates, and for each tr one record with each odd pair.
Records ==
    {Record(tr, t, m, <<<<45>>, <<-122>>>>) :
        tr \in PipeTrips, t \in PipeTimes, m \in PipeMeters}
      \cup {Record(tr, 0, 0, gps) : tr \in PipeTrips, gps \in PipeOddGps}

\* A trip with distances 0, 100, 250, 400 at times 0, 10, 10, 30.
SpeedExample ==
    [i \in 1..4 |-> Record(CHOOSE tr \in PipeTrips : TRUE, <<0, 10, 10, 30>>[i],
                           <<0, 100, 250, 400>>[i], <<<<45>>, <<-122>>>>)]

\* The batches of a flush: up to MaxRows records, and the example.
Batches == UNION {[1..n -> Records] : n \in 0..MaxRows} \cup {SpeedExample}

\* line 300: pd.DataFrame(message_buffer), with its RangeIndex
DataFrame(batch) ==
    [i \in DOMAIN batch |->
       [index |-> i, EVENT_NO_TRIP |-> batch[i].EVENT_NO_TRIP, OPD_DATE |-> batch[i].OPD_DATE,
        ACT_TIME |-> batch[i].ACT_TIME, METERS |-> batch[i].METERS,
        GPS_LATITUDE |-> batch[i].GPS_LATITUDE, GPS_LONGITUDE |-> batch[i].GPS_LONGITUDE,
        TSTAMP |-> NULL, SPEED |-> NULL, SERVICE_KEY |-> NULL]]

\* lines 99-103: the required fields that are missing from the frame (the
\* records here carry no null in a required column they have)
check_required_fields(frame, columns) ==
    {field \in {"EVENT_NO_TRIP", "VEHICLE_ID", "ACT_TIME", "OPD_DATE"} :
        field \notin columns}

\* lines 106-110: the rows of the selection df[(ACT_TIME < 0) | (ACT_TIME > 97200)]
check_act_time_limits(frame, columns) ==
    IF "ACT_TIME" \in columns
      THEN {frame[i].index : i \in {j \in DOMAIN frame :
               frame[j].ACT_TIME < 0 \/ frame[j].ACT_TIME > 97200}}
      ELSE {}

\* lines 113-117: the rows of the selection df[METERS < 0]
check_meters_non_negative(frame, columns) ==
    IF "METERS" \in columns
      THEN {frame[i].index : i \in {j \in DOMAIN frame : frame[j].METERS < 0}}
      ELSE {}

\* lines 120-124: the rows of the selection df[GPS_HDOP <= 0]
check_gps_hdop_positive(frame, columns) ==
    IF "GPS_HDOP" \in columns
      THEN {frame[i].index : i \in {j \in DOMAIN frame : frame[j].GPS_HDOP <= 0}}
      ELSE {}

\* lines 127-131: the rows logged as having both coordinates zero
check_zero_gps_coordinates(frame) ==
    {frame[i].index : i \in {j \in DOMAIN frame :
        frame[j].GPS_LATITUDE = <<0>> /\ frame[j].GPS_LONGITUDE = <<0>>}}

\* lines 134-139: the trips whose METERS, in the order of
\* group.sort_values("ACT_TIME"), go down somewhere.  The sort gives a new
\* frame, in which a row is before another of its trip when its ACT_TIME is
\* smaller, or equal and the row earlier in df.
check_monotonic_meters(frame, columns) ==
    IF {"EVENT_NO_TRIP", "METERS", "ACT_TIME"} \subseteq columns
      THEN {frame[i].EVENT_NO_TRIP : i \in {a \in DOMAIN frame :
               \E b \in DOMAIN frame :
                  /\ frame[a].EVENT_NO_TRIP = frame[b].EVENT_NO_TRIP
                  /\ \/ frame[a].ACT_TIME < frame[b].ACT_TIME
                     \/ frame[a].ACT_TIME = frame[b].ACT_TIME /\ a < b
                  /\ frame[a].METERS > frame[b].METERS}}
      ELSE {}

\* lines 142-147: the trips with more than one VEHICLE_ID
check_vehicle_id_consistency(frame, columns) ==
    IF {"EVENT_NO_TRIP", "VEHICLE_ID"} \subseteq columns
      THEN {frame[i].EVENT_NO_TRIP : i \in {a \in DOMAIN frame :
               \E b \in DOMAIN frame :
                  /\ frame[a].EVENT_NO_TRIP = frame[b].EVENT_NO_TRIP
                  /\ frame[a].VEHICLE_ID # frame[b].VEHICLE_ID}}
      ELSE {}

\* lines 203-211: the checks in the order of the loop
validation_functions ==
    <<"check_required_fields", "check_act_time_limits", "check_meters_non_negative",
      "check_gps_hdop_positive", "check_zero_gps_coordinates", "check_monotonic_meters",
      "check_vehicle_id_consistency">>

\* what func(df) of line 215 logs, as <<func, field, row or trip>>
validation_warnings(func, frame, columns) ==
    LET found == CASE func = "check_required_fields" -> check_required_fields(frame, columns)
                   [] func = "check_act_time_limits" -> check_act_time_limits(frame, columns)
                   [] func = "check_meters_non_negative" -> check_meters_non_negative(frame, columns)
                   [] func = "check_gps_hdop_positive" -> check_gps_hdop_positive(frame, columns)
                   [] func = "check_zero_gps_coordinates" ->
                        IF {"GPS_LATITUDE", "GPS_LONGITUDE"} \subseteq columns
                          THEN check_zero_gps_coordinates(frame) ELSE {}
                   [] func = "check_monotonic_meters" -> check_monotonic_meters(frame, columns)
                   [] func = "check_vehicle_id_consistency" -> check_vehicle_id_consistency(frame, columns)
    IN  {<<func, x>> : x \in found}

\* The checks that raise on a frame: an ordering comparison of a column of
\* str values with a number raises TypeError, in check_act_time_limits
\* (line 108) when ACT_TIME is such a column and in check_meters_non_negative
\* (line 115) when METERS is.  The values of the rows here are numbers; which
\* of the two columns came as text, if any, is an input of the flush.
validation_raises(columns) ==
    {{}} \cup {{func} : func \in {f \in {"check_act_time_limits", "check_meters_non_negative"} :
                                     (IF f = "check_act_time_limits" THEN "ACT_TIME" ELSE "METERS")
                                        \in columns}}

\* Mutant: the loop has one try block around it, and the first check that
\* raises ends it.
run_all_validations_log_until_raise(frame, columns, raised) ==
    LET First == IF \E i \in DOMAIN validation_functions : validation_functions[i] \in raised
                   THEN CHOOSE i \in DOMAIN validation_functions :
                          /\ validation_functions[i] \in raised
                          /\ \A j \in 1..(i - 1) : validation_functions[j] \notin raised
                   ELSE Len(validation_functions) + 1
    IN  UNION {IF i = First THEN {<<"failed", validation_functions[i]>>}
               ELSE IF i > First THEN {}
               ELSE validation_warnings(validation_functions[i], frame, columns) :
                  i \in DOMAIN validation_functions}

\* lines 213-217: every check is called in its own try block; one that
\* raises is logged as failed and the loop goes on with the next
run_all_validations_log(frame, columns, raised) ==
    UNION {IF validation_functions[i] \in raised
             THEN {<<"failed", validation_functions[i]>>}
             ELSE validation_warnings(validation_functions[i], frame, columns) :
                i \in DOMAIN validation_functions}

\* Mutant: check_monotonic_meters sorts df itself by ACT_TIME.
run_all_validations_sorts(frame) ==
    LET Before(a, b) == \/ frame[a].ACT_TIME < frame[b].ACT_TIME
                        \/ frame[a].ACT_TIME = frame[b].ACT_TIME /\ a < b
        Place(a) == 1 + Cardinality({b \in DOMAIN frame : Before(b, a)})
    IN  [k \in DOMAIN frame |-> frame[CHOOSE a \in DOMAIN frame : Place(a) = k]]

\* lines 202-217: df after the call.  No check assigns to df or to a column
\* of it: the selections df[...] of lines 108, 115, 122 and 129, the groups of
\* groupby and group.sort_values (line 137) are new frames, and the function
\* returns nothing that process_buffer (line 307) could assign.
run_all_validations(frame) == frame

\* lines 230-254: TSTAMP = OPD_DATE + ACT_TIME seconds
add_tstamp_column(frame) ==
    [i \in DOMAIN frame |-> [frame[i] EXCEPT !.TSTAMP = <<frame[i].OPD_DATE, frame[i].ACT_TIME>>]]

\* the order of sort_values(by=["TSTAMP", "EVENT_NO_TRIP"])
SortsBefore(a, b) ==
    \/ a.TSTAMP[1] < b.TSTAMP[1]
    \/ a.TSTAMP[1] = b.TSTAMP[1] /\ a.TSTAMP[2] < b.TSTAMP[2]
    \/ a.TSTAMP = b.TSTAMP /\ a.EVENT_NO_TRIP < b.EVENT_NO_TRIP

\* r goes behind the rows that do not sort after it: the sort is stable
RECURSIVE InsertSorted(_, _)
InsertSorted(sorted, r) ==
    IF sorted = <<>> THEN <<r>>
    ELSE IF SortsBefore(r, sorted[Len(sorted)])
           THEN Append(InsertSorted(SubSeq(sorted, 1, Len(sorted) - 1), r), sorted[Len(sorted)])
           ELSE Append(sorted, r)

RECURSIVE sort_values(_)
sort_values(frame) ==
    IF frame = <<>> THEN <<>>
    ELSE InsertSorted(sort_values(SubSeq(frame, 1, Len(frame) - 1)), frame[Len(frame)])

\* Mutant: the first row keeps the speed 0.
compute_speed_leading_zero(group) ==
    [i \in DOMAIN group |->
       IF i = 1 THEN <<0, 1>>
       ELSE LET delta_m == group[i].METERS - group[i - 1].METERS
                delta_t == group[i].ACT_TIME - group[i - 1].ACT_TIME
            IN IF delta_t > 0 THEN <<delta_m, delta_t>> ELSE <<0, 1>>]

\* lines 257-269: the speeds of one trip's rows, in their order
compute_speed(group) ==
    LET speeds == [i \in DOMAIN group |->
                     IF i = 1 THEN <<0, 1>>
                     ELSE LET delta_m == group[i].METERS - group[i - 1].METERS
                              delta_t == group[i].ACT_TIME - group[i - 1].ACT_TIME
                          IN IF delta_t > 0 THEN <<delta_m, delta_t>> ELSE <<0, 1>>]
    IN [i \in DOMAIN group |-> IF i = 1 /\ Len(speeds) > 1 THEN speeds[2] ELSE speeds[i]]

\* lines 272-277: sort, then compute_speed per EVENT_NO_TRIP group; the rows
\* come back in the sorted order
add_speed_column(frame) ==
    LET sorted == sort_values(frame)
        Group(tr) == SelectSeq(sorted, LAMBDA r : r.EVENT_NO_TRIP = tr)
        Place(i) == Cardinality({j \in 1..i : sorted[j].EVENT_NO_TRIP = sorted[i].EVENT_NO_TRIP})
    IN [i \in DOMAIN sorted |->
          [sorted[i] EXCEPT !.SPEED = compute_speed(Group(sorted[i].EVENT_NO_TRIP))[Place(i)]]]

\* lines 280-289: date.weekday() is 5 on Saturday and 6 on Sunday
get_service_key(date) ==
    IF date = 5 THEN "Saturday" ELSE IF date = 6 THEN "Sunday" ELSE "Weekday"

\* lines 291-295
add_service_key_column(frame) ==
    [i \in DOMAIN frame |-> [frame[i] EXCEPT !.SERVICE_KEY = <<get_service_key(frame[i].TSTAMP[1])>>]]

\* line 158: max_speed: float = 80.0
max_speed == 80

\* speed <= limit, for a speed <<delta_m, delta_t>> with delta_t > 0
SpeedAtMost(speed, limit) == speed[1] <= limit * speed[2]

\* Mutant: the filter keeps the rows over the ceiling.
enforce_speed_limit_inverted(frame) ==
    SelectSeq(frame, LAMBDA r : ~SpeedAtMost(r.SPEED, max_speed))

\* lines 158-163: df[df["SPEED"] <= max_speed]
enforce_speed_limit(frame) ==
    SelectSeq(frame, LAMBDA r : SpeedAtMost(r.SPEED, max_speed))

\* Mutant: the filter also removes the rows with both coordinates zero.
remove_null_or_zero_gps_coordinates(frame) ==
    SelectSeq(frame, LAMBDA r : /\ r.GPS_LATITUDE # NULL /\ r.GPS_LONGITUDE # NULL
                                /\ ~(r.GPS_LATITUDE = <<0>> /\ r.GPS_LONGITUDE = <<0>>))

\* lines 150-155: df[GPS_LATITUDE.notnull() & GPS_LONGITUDE.notnull()]
remove_null_gps_coordinates(frame) ==
    SelectSeq(frame, LAMBDA r : r.GPS_LATITUDE # NULL /\ r.GPS_LONGITUDE # NULL)

\* line 300: the columns of pd.DataFrame(message_buffer) are the keys of the
\* records; the frame of an empty buffer has none
DataFrame_columns(batch) ==
    IF batch = <<>> THEN {}
    ELSE {"EVENT_NO_TRIP", "OPD_DATE", "ACT_TIME", "METERS", "GPS_LATITUDE", "GPS_LONGITUDE"}

\* lines 231-254: the columns add_tstamp_column leaves.  When its try block
\* raises (pd.to_timedelta with unit='s' does on an ACT_TIME that is a str)
\* the except clause adds the column tstamp, of NaT, and no TSTAMP.
add_tstamp_column_columns(columns, raises) ==
    IF raises THEN columns \cup {"tstamp"} ELSE columns \cup {"TIME_DELTA", "TSTAMP"}

InitPipe ==
    /\ pipe_pc = "idle"
    /\ pipe_df = <<>>
    /\ pipe_columns = {}
    /\ pipe_after_speed = <<>>
    /\ pipe_loaded = <<>>
    /\ pipe_warnings = {}

(***************************************************************************)
(* process_buffer (lines 297-335), stage by stage.                         *)
(***************************************************************************)
\* lines 300-301: the frame of the buffered records
flush_DataFrame ==
    /\ pipe_pc = "idle"
    /\ \E batch \in Batches :
         /\ pipe_df' = DataFrame(batch)
         /\ pipe_columns' = DataFrame_columns(batch)
    /\ pipe_after_speed' = <<>>
    /\ pipe_loaded' = <<>>
    /\ pipe_warnings' = {}
    /\ pipe_pc' = "run_all_validations"

\* lines 303-309: the validations; then df['OPD_DATE'], which raises KeyError
\* on the frame of an empty buffer and ends the flush in the except clause
flush_run_all_validations ==
    /\ pipe_pc = "run_all_validations"
    /\ pipe_df' = run_all_validations(pipe_df)
    /\ \E raised \in validation_raises(pipe_columns) :
         pipe_warnings' = run_all_validations_log(pipe_df, pipe_columns, raised)
    /\ pipe_pc' = IF "OPD_DATE" \notin pipe_columns THEN "return" ELSE "add_tstamp_column"
    /\ UNCHANGED <<pipe_columns, pipe_after_speed, pipe_loaded>>

\* line 312
flush_add_tstamp_column ==
    /\ pipe_pc = "add_tstamp_column"
    /\ \E raises \in BOOLEAN :
         /\ pipe_df' = IF raises THEN pipe_df ELSE add_tstamp_column(pipe_df)
         /\ pipe_columns' = add_tstamp_column_columns(pipe_columns, raises)
    /\ pipe_pc' = "add_speed_column"
    /\ UNCHANGED <<pipe_after_speed, pipe_loaded, pipe_warnings>>

\* Mutant: the load is done in a finally clause, so that a frame whose
\* derivation raised is loaded as it stands.
flush_add_speed_column_then_load ==
    /\ pipe_pc = "add_speed_column"
    /\ IF "TSTAMP" \notin pipe_columns
         THEN /\ pipe_pc' = "load_breadcrumb_data"
              /\ UNCHANGED <<pipe_df, pipe_columns, pipe_after_speed>>
         ELSE /\ pipe_df' = add_speed_column(pipe_df)
              /\ pipe_columns' = pipe_columns \cup {"SPEED"}
              /\ pipe_after_speed' = add_speed_column(pipe_df)
              /\ pipe_pc' = "add_service_key_column"
    /\ UNCHANGED <<pipe_loaded, pipe_warnings>>

\* line 314: sort_values(by=["TSTAMP", "EVENT_NO_TRIP"]) raises KeyError on a
\* frame without the column TSTAMP, which ends the flush in the except clause
\* of line 334
flush_add_speed_column ==
    /\ pipe_pc = "add_speed_column"
    /\ IF "TSTAMP" \notin pipe_columns
         THEN /\ pipe_pc' = "return"
              /\ UNCHANGED <<pipe_df, pipe_columns, pipe_after_speed>>
         ELSE /\ pipe_df' = add_speed_column(pipe_df)
              /\ pipe_columns' = pipe_columns \cup {"SPEED"}
              /\ pipe_after_speed' = add_speed_column(pipe_df)
              /\ pipe_pc' = "add_service_key_column"
    /\ UNCHANGED <<pipe_loaded, pipe_warnings>>

\* line 316
flush_add_service_key_column ==
    /\ pipe_pc = "add_service_key_column"
    /\ pipe_df' = add_service_key_column(pipe_df)
    /\ pipe_columns' = pipe_columns \cup {"SERVICE_KEY"}
    /\ pipe_pc' = "enforce_speed_limit"
    /\ UNCHANGED <<pipe_after_speed, pipe_loaded, pipe_warnings>>

\* line 320
flush_enforce_speed_limit ==
    /\ pipe_pc = "enforce_speed_limit"
    /\ pipe_df' = enforce_speed_limit(pipe_df)
    /\ pipe_pc' = "remove_null_gps_coordinates"
    /\ UNCHANGED <<pipe_columns, pipe_after_speed, pipe_loaded, pipe_warnings>>

\* lines 323-328: the null-GPS filter, then the two assertions, which log
flush_remove_null_gps_coordinates ==
    /\ pipe_pc = "remove_null_gps_coordinates"
    /\ pipe_df' = remove_null_gps_coordinates(pipe_df)
    /\ pipe_pc' = "load_breadcrumb_data"
    /\ UNCHANGED <<pipe_columns, pipe_after_speed, pipe_loaded, pipe_warnings>>

\* lines 331-335: load_breadcrumb_data(df), which returns or raises
flush_load_breadcrumb_data ==
    /\ pipe_pc = "load_breadcrumb_data"
    /\ pipe_loaded' = Append(pipe_loaded, pipe_df)
    /\ pipe_pc' = "return"
    /\ UNCHANGED <<pipe_df, pipe_columns, pipe_after_speed, pipe_warnings>>

\* process_buffer returns, and its local df is gone
flush_return ==
    /\ pipe_pc = "return"
    /\ pipe_df' = <<>>
    /\ pipe_columns' = {}
    /\ pipe_after_speed' = <<>>
    /\ pipe_loaded' = <<>>
    /\ pipe_warnings' = {}
    /\ pipe_pc' = "idle"

(***************************************************************************)
(*                           Specifications                                *)
(***************************************************************************)
Init == InitSub /\ InitEnv /\ InitLoad /\ InitStopLoad /\ InitStop /\ InitPipe

\* A step of one program leaves the state of the others alone.
OnlySub == UNCHANGED <<envVars, loadVars, stopLoadVars, stopVars, pipeVars>>
OnlyLoad == UNCHANGED <<subVars, envVars, stopLoadVars, stopVars, pipeVars>>
OnlyStop == UNCHANGED <<subVars, envVars, loadVars, stopLoadVars, pipeVars>>
OnlyPipe == UNCHANGED <<subVars, envVars, loadVars, stopLoadVars, stopVars>>

Next ==
    \/ \E w \in Workers : callback(w) /\ OnlySub
    \/ \E w \in Workers : process_message_append(w) /\ OnlySub
    \/ \E w \in Workers : process_message_stamp(w) /\ OnlySub
    \/ \E w \in Workers : callback_ack(w) /\ OnlySub
    \/ \E w \in Workers : callback_nack(w) /\ OnlySub
    \/ process_and_save_poll /\ OnlySub
    \/ process_and_save_acquire /\ OnlySub
    \/ process_and_save_release /\ OnlySub
    \/ \E e \in Executors : process_buffer_df(e) /\ OnlySub
    \/ \E e \in Executors : process_buffer_clear(e) /\ OnlySub
    \/ \E e \in Executors : process_buffer_pipeline(e) /\ OnlySub
    \/ \E e \in Executors : process_buffer_load(e) /\ OnlySub
    \/ SIGTERM /\ OnlySub
    \/ shutdown_signal_handler_acquire /\ OnlySub
    \/ shutdown_signal_handler_release /\ OnlySub
    \/ shutdown_signal_handler_exit /\ OnlySub
    \/ Tick /\ OnlySub

Spec == Init /\ [][Next]_vars

\* The breadcrumb subscriber started in any environment that has all of the
\* variables of connect, or all but one.
Environs == {connect_env} \cup {connect_env \ {var} : var \in connect_env}

InitAnyEnv ==
    InitSub /\ InitEnvWith(Environs) /\ InitLoad /\ InitStopLoad /\ InitStop /\ InitPipe

SpecEnv == InitAnyEnv /\ [][Next]_vars

NextLoad ==
    \/ load_breadcrumb_data_call /\ OnlyLoad
    \/ load_breadcrumb_data_stage /\ OnlyLoad
    \/ load_breadcrumb_data_insert_trip /\ OnlyLoad
    \/ load_breadcrumb_data_insert_breadcrumb /\ OnlyLoad
    \/ load_breadcrumb_data_commit /\ OnlyLoad
    \/ load_breadcrumb_data_return /\ OnlyLoad
    \/ load_breadcrumb_data_raise /\ OnlyLoad

SpecLoad == Init /\ [][NextLoad]_vars

\* The breadcrumb frames of the two-loader specification: one row at most, of
\* the vehicle the stop events are about.
StoreFrames ==
    {frame \in Frames : Len(frame) <= 1 /\ \A i \in DOMAIN frame : frame[i].vehicle_id \in StopVehicles}

InitStore == InitSub /\ InitEnv /\ InitLoad /\ InitStopLoadWith(StopEventSchemas) /\ InitStop /\ InitPipe

OnlyStore == UNCHANGED <<subVars, envVars, stopVars, pipeVars>>

NextStore ==
    \/ slpc = "idle" /\ load_breadcrumb_data_from(StoreFrames) /\ OnlyLoad
    \/ load_breadcrumb_data_stage /\ OnlyLoad
    \/ load_breadcrumb_data_insert_trip /\ OnlyLoad
    \/ load_breadcrumb_data_insert_breadcrumb /\ OnlyLoad
    \/ load_breadcrumb_data_commit /\ OnlyLoad
    \/ load_breadcrumb_data_return /\ OnlyLoad
    \/ load_breadcrumb_data_raise /\ OnlyLoad
    \/ load_stop_event_data_call /\ OnlyStore
    \/ load_stop_event_data_create_stop_event_table /\ OnlyStore
    \/ load_stop_event_data_stage /\ OnlyStore
    \/ load_stop_event_data_insert /\ OnlyStore
    \/ load_stop_event_data_update_trip /\ OnlyStore
    \/ load_stop_event_data_commit /\ OnlyStore
    \/ load_stop_event_data_raise /\ OnlyStore

SpecStore == InitStore /\ [][NextStore]_vars

NextStop ==
    \/ stop_callback /\ OnlyStop
    \/ stop_callback_append /\ OnlyStop
    \/ stop_callback_flag /\ OnlyStop
    \/ stop_callback_stamp /\ OnlyStop
    \/ stop_callback_ack /\ OnlyStop
    \/ stop_callback_nack /\ OnlyStop
    \/ \E t \in StopFlushers : save_and_load_data_enter(t) /\ OnlyStop
    \/ \E t \in StopFlushers : save_and_load_data_df(t) /\ OnlyStop
    \/ \E t \in StopFlushers : save_and_load_data_skip(t) /\ OnlyStop
    \/ \E t \in StopFlushers : save_and_load_data_load(t) /\ OnlyStop
    \/ \E t \in StopFlushers : save_and_load_data_finally(t) /\ OnlyStop
    \/ monitor_inactivity_check /\ OnlyStop
    \/ monitor_inactivity_reset /\ OnlyStop
    \/ monitor_inactivity_wake /\ OnlyStop
    \/ handle_signal /\ OnlyStop
    \/ run_finally /\ OnlyStop
    \/ run_exit /\ OnlyStop
    \/ StopTick /\ OnlyStop

SpecStop == Init /\ [][NextStop]_vars

NextPipe ==
    \/ flush_DataFrame /\ OnlyPipe
    \/ flush_run_all_validations /\ OnlyPipe
    \/ flush_add_tstamp_column /\ OnlyPipe
    \/ flush_add_speed_column /\ OnlyPipe
    \/ flush_add_service_key_column /\ OnlyPipe
    \/ flush_enforce_speed_limit /\ OnlyPipe
    \/ flush_remove_null_gps_coordinates /\ OnlyPipe
    \/ flush_load_breadcrumb_data /\ OnlyPipe
    \/ flush_return /\ OnlyPipe

SpecPipe == Init /\ [][NextPipe]_vars

(***************************************************************************)
(*                               Claims                                    *)
(***************************************************************************)
Buffered(m) == Occurrences(message_buffer, m)

\* process_buffer has taken m in a batch and has returned for that batch
Flushed(m) == drained[m] >= 1 /\ \A e \in Executors : m \notin Range(df[e])

\* C1: whatever the interleaving of process_message appends with the drains
\* of process_buffer (idle poller or SIGTERM handler), a record that was
\* appended is in exactly one drained batch or still in message_buffer, and a
\* record that was not appended is in neither: none is lost, none drained twice.
C1_NoLossNoDuplication ==
    \A m \in Msgs :
        Buffered(m) + drained[m] = IF appendedAt[m] >= 0 THEN 1 ELSE 0

\* C1 witness: one record has been drained and a later one sits in the buffer
\* while another worker is between its append and its acknowledgement.
C1_Witness ==
    \E m1, m2 \in Msgs :
        /\ drained[m1] = 1
        /\ Buffered(m2) = 1
        /\ \E w \in Workers : pc[w] \in {"stamp", "ack"}

\* C2: load_breadcrumb_data is idempotent on the store: while a call runs
\* that was given the frame of the call before it, and that call had
\* returned, no step changes the trip table or the breadcrumb table.
C2_LoadIdempotent ==
    [][reload => trip' = trip /\ breadcrumb' = breadcrumb]_vars

\* a second load of one frame has committed and returned over a store that
\* holds the rows of the first
C2_Witness ==
    /\ reload
    /\ lresult = "returned 1"
    /\ \E i \in DOMAIN ldf : breadcrumb_row(ldf[i]) \in breadcrumb

\* C3: after any sequence of loads, each completing or failing at any step,
\* every row of the breadcrumb table has a row of the trip table with its
\* trip_id.
C3_BreadcrumbHasTrip ==
    \A b \in breadcrumb : \E t \in trip : t.trip_id = b.trip_id

\* a load has failed whose trip row is not in the store, and the store holds
\* breadcrumbs of earlier loads
C3_Witness ==
    /\ lresult \in {"NotNullViolation", "OperationalError"}
    /\ \E i \in DOMAIN ldf : trip_row(ldf[i]) \notin trip
    /\ breadcrumb # {}

KeysUnique(trips, breadcrumbs) ==
    /\ \A t1, t2 \in trips : trip_key(t1) = trip_key(t2) => t1 = t2
    /\ \A b1, b2 \in breadcrumbs : breadcrumb_key(b1) = breadcrumb_key(b2) => b1 = b2

\* C4: the store holds at most one breadcrumb row per (tstamp, trip_id) and at
\* most one trip row per trip_id, no step of a load removes or changes a row
\* of the store, and an INSERT whose staged rows collide with keys of the
\* store does not fail for it: the trip INSERT always completes, and the
\* breadcrumb INSERT completes unless a staged tstamp is NULL.
C4_KeysUniqueNoError ==
    /\ [](KeysUnique(trip, breadcrumb) /\ KeysUnique(txTrip, txBreadcrumb))
    /\ [][/\ trip \subseteq trip' /\ breadcrumb \subseteq breadcrumb'
          /\ lresult' # "UniqueViolation"
          /\ load_breadcrumb_data_insert_trip
               => lpc' = "trip_inserted" /\ txTrip \subseteq txTrip'
          /\ load_breadcrumb_data_insert_breadcrumb
               /\ (\A i \in DOMAIN tmp_breadcrumb : tmp_breadcrumb[i].tstamp # NaT)
               => lpc' = "breadcrumb_inserted" /\ txBreadcrumb \subseteq txBreadcrumb'
         ]_vars

\* a load has committed whose staged trip and whose staged breadcrumb each had
\* the key of a different row of the store, which is still there
C4_Witness ==
    /\ lpc = "committed"
    /\ \E i \in DOMAIN tmp_trip : tmp_trip[i] \notin trip
    /\ \E i \in DOMAIN tmp_breadcrumb : tmp_breadcrumb[i] \notin breadcrumb

\* C5: when the process exits after SIGTERM, every record that was in
\* message_buffer when the signal arrived has been drained and its
\* process_buffer call has returned, however recently it was appended and
\* whether or not an idle flush was running when the signal arrived.
C5_SigtermFlushesBuffer ==
    pc[Main] = "exited" => \A m \in sigBuffer : Flushed(m)

\* C5 witness: the process has exited, and a record buffered at the signal was
\* appended less than the idle threshold before.
C5_Witness ==
    /\ pc[Main] = "exited"
    /\ \E m \in sigBuffer : now - appendedAt[m] < idle_threshold

\* C6: a batch whose last record was appended at t0 is not drained by an idle
\* flush at a poll where now - t0 < 180, and a poll that leaves it in the
\* buffer is one where now - t0 < 180 (so the first poll with now - t0 >= 180
\* flushes it).
C6_IdleFlushTiming ==
    /\ pc[Poller] = "pb_clear" /\ df[Poller] # <<>>
         => now - appendedAt[df[Poller][Len(df[Poller])]] >= idle_threshold
    /\ pc[Poller] = "sleep" /\ wakeAt = now + idle_check_interval /\ message_buffer # <<>>
         => now - appendedAt[message_buffer[Len(message_buffer)]] < idle_threshold

\* C7: the idle poller and the SIGTERM handler are never both inside
\* process_buffer.
C7_OneFlushAtATime == ~(InProcessBuffer(Poller) /\ InProcessBuffer(Main))

\* C7 witness: SIGTERM has arrived while the idle flush is running, and the
\* handler waits for df_lock.
C7_Witness == pc[Main] = "h_lock" /\ InProcessBuffer(Poller) /\ df[Poller] # <<>>

\* C8: a message gets at most one of ack and nack, and exactly one once its
\* callback has returned; it is acked only if it decoded and its record was
\* appended; it is nacked only if decoding failed, and then no record of it
\* is ever appended; a message that did not decode is never acked.
C8_AckXorNack ==
    \A m \in Msgs :
        /\ acks[m] + nacks[m] <= 1
        /\ decode[m] # "pending" /\ ~InFlight(m) => acks[m] + nacks[m] = 1
        /\ acks[m] = 1 => decode[m] = "ok" /\ appendedAt[m] >= 0
        /\ nacks[m] = 1 => decode[m] = "failed"
        /\ decode[m] = "failed" => appendedAt[m] < 0 /\ Buffered(m) = 0 /\ drained[m] = 0

\* C8 witness: one message has been acked and another nacked.
C8_Witness == \E m1, m2 \in Msgs : acks[m1] = 1 /\ nacks[m2] = 1

\* C9: when the load of a flush raises, the records drained for that flush
\* are discarded: they are not put back into the buffer and no flush takes
\* them after the failure, in the breadcrumb subscriber (message_buffer,
\* process_buffer) and in the stop-event subscriber (self.rows,
\* save_and_load_data).
C9_FailedBatchDiscarded ==
    /\ \A m \in loadFailed : m \notin Range(message_buffer) /\ drained[m] = 1
    /\ stopRetried = {}
    /\ \A m \in stopLoadFailed :
         (\A t \in StopFlushers : ~InSaveAndLoad(t)) => m \notin Range(rows)

\* The rows of a frame whose derived SPEED is over the ceiling.
OverCeiling(frame) == {i \in DOMAIN frame : ~SpeedAtMost(frame[i].SPEED, max_speed)}

\* C10: in every flush no row whose derived SPEED exceeds 80 is in the frame
\* load_breadcrumb_data is called with, while the output of add_speed_column
\* still has every row of the batch, those over 80 included.
C10_SpeedCeilingBeforeLoad ==
    /\ [](\A k \in DOMAIN pipe_loaded :
            /\ OverCeiling(pipe_loaded[k]) = {}
            /\ \A i \in DOMAIN pipe_loaded[k] :
                 \E j \in DOMAIN pipe_after_speed :
                    /\ pipe_after_speed[j].index = pipe_loaded[k][i].index
                    /\ pipe_after_speed[j].SPEED = pipe_loaded[k][i].SPEED)
    /\ [][(flush_add_speed_column /\ pipe_pc' = "add_service_key_column") =>
            /\ Len(pipe_after_speed') = Len(pipe_df)
            /\ {r.index : r \in Range(pipe_after_speed')} = {r.index : r \in Range(pipe_df)}
         ]_vars

\* a flush has called the loader with a frame that has rows, after
\* add_speed_column returned a row over the ceiling
C10_Witness ==
    /\ pipe_pc = "return"
    /\ OverCeiling(pipe_after_speed) # {}
    /\ \E k \in DOMAIN pipe_loaded : pipe_loaded[k] # <<>>

Indexes(frame) == {r.index : r \in Range(frame)}

NullGps(r) == r.GPS_LATITUDE = NULL \/ r.GPS_LONGITUDE = NULL
ZeroGps(r) == r.GPS_LATITUDE = <<0>> /\ r.GPS_LONGITUDE = <<0>>

\* C11: the frame load_breadcrumb_data is called with has exactly the rows
\* of the output of add_speed_column whose coordinates are both not null and
\* whose SPEED is at most 80: no row with a null coordinate is in it, and a
\* row with latitude 0 and longitude 0 is in it when its speed allows, after
\* check_zero_gps_coordinates logged a warning for it.
C11_NullGpsFilter ==
    \A k \in DOMAIN pipe_loaded :
       /\ \A i \in DOMAIN pipe_loaded[k] : ~NullGps(pipe_loaded[k][i])
       /\ Indexes(pipe_loaded[k]) =
            {r.index : r \in {x \in Range(pipe_after_speed) :
                                 ~NullGps(x) /\ SpeedAtMost(x.SPEED, max_speed)}}
       /\ \A r \in Range(pipe_after_speed) :
            ZeroGps(r) => <<"check_zero_gps_coordinates", r.index>> \in pipe_warnings

\* the loader has been called with a row whose coordinates are both zero, in
\* a flush whose batch also had a row with a null coordinate
C11_Witness ==
    /\ pipe_pc = "return"
    /\ \E k \in DOMAIN pipe_loaded : \E i \in DOMAIN pipe_loaded[k] : ZeroGps(pipe_loaded[k][i])
    /\ \E r \in Range(pipe_after_speed) : NullGps(r)

\* Two speeds <<delta_m, delta_t>> are the same number.
SameSpeed(a, b) == a[1] * b[2] = b[1] * a[2]

\* The speed the rule gives row i of a frame after row j of its trip.
SpeedAfter(frame, i, j) ==
    IF frame[i].ACT_TIME - frame[j].ACT_TIME > 0
      THEN <<frame[i].METERS - frame[j].METERS, frame[i].ACT_TIME - frame[j].ACT_TIME>>
      ELSE <<0, 1>>

\* The rows of the trip of row i before it, and after it, in the frame.
TripBefore(frame, i) ==
    {j \in 1..(i - 1) : frame[j].EVENT_NO_TRIP = frame[i].EVENT_NO_TRIP}
TripBehind(frame, i) ==
    {j \in (i + 1)..Len(frame) : frame[j].EVENT_NO_TRIP = frame[i].EVENT_NO_TRIP}

Max(S) == CHOOSE x \in S : \A y \in S : y <= x
Min(S) == CHOOSE x \in S : \A y \in S : x <= y

\* C12: in the output of add_speed_column the rows of a trip are in the order
\* of their timestamps; a row after the first of its trip has the speed
\* (meters[i] - meters[i-1]) / (time[i] - time[i-1]), or 0 when the time delta
\* is not positive; the first row of a trip has the speed of the second, or 0
\* when it is the only one; and distances 0, 100, 250, 400 at times 0, 10,
\* 10, 30 give the speeds 10, 10, 0, 7.5.
C12_SpeedDerivation ==
    LET f == pipe_after_speed IN
    /\ \A i \in DOMAIN f :
         /\ \A j \in TripBefore(f, i) :
              \/ f[j].TSTAMP[1] < f[i].TSTAMP[1]
              \/ f[j].TSTAMP[1] = f[i].TSTAMP[1] /\ f[j].TSTAMP[2] <= f[i].TSTAMP[2]
         /\ f[i].SPEED[2] > 0
         /\ IF TripBefore(f, i) # {}
              THEN SameSpeed(f[i].SPEED, SpeedAfter(f, i, Max(TripBefore(f, i))))
              ELSE IF TripBehind(f, i) # {}
                THEN SameSpeed(f[i].SPEED, SpeedAfter(f, Min(TripBehind(f, i)), i))
                ELSE SameSpeed(f[i].SPEED, <<0, 1>>)
    /\ [i \in DOMAIN f |-> <<f[i].METERS, f[i].ACT_TIME>>]
         = [i \in 1..4 |-> <<SpeedExample[i].METERS, SpeedExample[i].ACT_TIME>>]
       => /\ SameSpeed(f[1].SPEED, <<10, 1>>)
          /\ SameSpeed(f[2].SPEED, <<10, 1>>)
          /\ SameSpeed(f[3].SPEED, <<0, 1>>)
          /\ SameSpeed(f[4].SPEED, <<15, 2>>)

\* add_speed_column has returned the speeds of the example
C12_Witness ==
    /\ pipe_pc = "add_service_key_column"
    /\ Len(pipe_after_speed) = 4
    /\ \A i \in 1..4 : /\ pipe_after_speed[i].METERS = SpeedExample[i].METERS
                       /\ pipe_after_speed[i].ACT_TIME = SpeedExample[i].ACT_TIME

\* The columns a stop-event row gives to the trip table.
TripHas(t, e) ==
    /\ t.route_id = e.route_number
    /\ t.service_key = e.service_key
    /\ t.direction = text(e.direction)

\* A call of load_stop_event_data ends in this step, and not because the
\* database could not be reached.
StopLoadEnds ==
    /\ slpc # "idle"
    /\ slpc' = "idle"
    /\ slresult' # "OperationalError"

\* C13: when a call of load_stop_event_data ends, the trip row of every
\* trip_id of its batch, when there is one, has as route_id the route_number
\* of a row of the batch with that trip_id, whatever route_id it had before.
C13_StopEventOverwritesRoute ==
    [][StopLoadEnds =>
         \A e \in Range(sldf) : \A t \in trip' :
             t.trip_id = e.trip_id =>
                 \E e2 \in Range(sldf) : e2.trip_id = t.trip_id /\ t.route_id = e2.route_number]_vars

\* C14: when a call of load_stop_event_data ends that followed another call
\* of it, and both batches have a row for a trip_id, the trip row of that
\* trip_id holds the route, service key and direction of a row of the later
\* batch.
C14_LastWriteWins ==
    [][StopLoadEnds =>
         \A e1 \in slprev : \A e \in Range(sldf) : \A t \in trip' :
             (e1.trip_id = t.trip_id /\ e.trip_id = t.trip_id) =>
                 \E e2 \in Range(sldf) : e2.trip_id = t.trip_id /\ TripHas(t, e2)]_vars

\* C15: no step of a call of load_breadcrumb_data removes a row of the trip
\* table or changes a column of one, the rows a stop-event load has written
\* included.
C15_BreadcrumbLoadKeepsTrips ==
    [][(lpc # "idle" \/ lpc' # "idle") => trip \subseteq trip']_vars

\* a breadcrumb load has committed a frame with a trip whose row in the store
\* carries the route of a stop-event load
C15_Witness ==
    /\ lpc = "committed"
    /\ \E i \in DOMAIN ldf : \E t \in trip :
         t.trip_id = ldf[i].event_no_trip /\ t.route_id \in RouteNumbers

\* C16: when a variable of the store connection is not set, the process has
\* stopped before any message is delivered to a callback, appended to
\* message_buffer, acknowledged or rejected.
C16_MissingEnvFatalAtStartup ==
    (\E var \in connect_env : var \notin environ) =>
        /\ message_buffer = <<>>
        /\ \A w \in Workers : pc[w] = "idle"
        /\ \A m \in Msgs : acks[m] = 0 /\ nacks[m] = 0 /\ appendedAt[m] = -1

\* The SIGTERM handler's process_buffer has emptied message_buffer (line 301).
FinalDrainDone == pc[Main] \in {"pb_pipeline", "pb_load", "pb_return", "h_exit", "exited"}

\* C17: once the SIGTERM handler's flush has drained message_buffer, no step
\* appends a record to message_buffer and no step acknowledges a message, and
\* when the process has exited no acknowledged record is left in
\* message_buffer.
C17_NoIntakeAfterFinalDrain ==
    /\ [][FinalDrainDone =>
            /\ \A m \in Msgs : message_buffer' # Append(message_buffer, m)
            /\ acks' = acks]_vars
    /\ [](pc[Main] = "exited" =>
            \A i \in DOMAIN message_buffer : acks[message_buffer[i]] = 0)

\* C18: when a call of load_breadcrumb_data has returned that was given the
\* frame of the call before it, which had returned, the numbers of rows it
\* reports as added to the Trip table and to the BreadCrumb table (lines
\* 162-163) are zero.
C18_SecondLoadReportsZero ==
    (reload /\ lpc = "idle" /\ lresult = "returned 1") =>
        new_trip_rows = 0 /\ new_breadcrumb_rows = 0

\* C20: a call of load_breadcrumb_data whose frame leaves no breadcrumb row
\* after the deduplication and the trip_id filter returns 0 in its first
\* step: it does not go on to connect, and the tables, committed and as any
\* transaction sees them, are as before.
C20_EmptyLoadReturnsZero ==
    [][(lpc = "idle" /\ breadcrumb_df(ldf') = <<>>) =>
         /\ lpc' = "idle"
         /\ lresult' = "returned 0"
         /\ UNCHANGED <<trip, breadcrumb, txTrip, txBreadcrumb, tmp_trip, tmp_breadcrumb>>]_vars

\* a call with an empty frame has returned 0 over a store that holds rows
C20_Witness ==
    /\ lpc = "idle"
    /\ lresult = "returned 0"
    /\ breadcrumb_df(ldf) = <<>>
    /\ trip # {}
    /\ breadcrumb # {}

\* C19: when add_tstamp_column has failed for a batch (its except clause has
\* marked the timestamp null in the column tstamp), the flush is not aborted:
\* the step after it is not the except clause of process_buffer but goes on to
\* add_service_key_column, and when the flush ends load_breadcrumb_data has
\* been called with the batch.
C19_TstampFailureDoesNotAbort ==
    /\ [][(pipe_pc = "add_speed_column" /\ "tstamp" \in pipe_columns)
            => pipe_pc' = "add_service_key_column"]_vars
    /\ []((pipe_pc = "return" /\ "tstamp" \in pipe_columns) => pipe_loaded # <<>>)

\* The messages whose record the callback has appended to self.rows.
StopAppended ==
    {m \in Msgs : /\ stop_decode[m] \in {"ok", "short"}
                  /\ ~(stop_cur = m /\ stop_pc["callback"] = "append")}

\* C21: when run has logged "Total messages processed: {len(self.rows)}" and
\* the process ends, the number it logged is the number of messages whose
\* record was appended to self.rows during the run.
C21_TotalMessagesProcessed ==
    stop_pc["main"] = "exited" => Len(rows) = Cardinality(StopAppended)

\* C22: every record appended to self.rows is in the frame of exactly one
\* save_and_load_data call or is still in self.rows, whatever the callback
\* does while save_and_load_data runs (seen when no call is between building
\* its frame and clearing self.rows).
C22_StopNoLossNoDuplication ==
    (\A t \in StopFlushers : ~InSaveAndLoad(t)) =>
        \A m \in StopAppended :
            IF m \in Range(rows) THEN stopBatched[m] = 0 ELSE stopBatched[m] = 1

\* C24: the inactivity monitor and the main thread are never both inside
\* save_and_load_data, past its test of self.rows.
C24_OneSaveAndLoadAtATime ==
    ~(InSaveAndLoad("monitor") /\ InSaveAndLoad("main"))

\* C30: a row that is in self.rows while the monitor polls, with no callback
\* running and no shutdown requested, has received_any_message set, so that
\* the monitor's test of line 74 hands it to a flush once 180 s have passed
\* without a further message.
C30_BufferedRowTriggered ==
    (/\ rows # <<>>
     /\ ~shutdown_event
     /\ stop_pc["callback"] = "idle"
     /\ stop_pc["monitor"] \in {"check", "wait"}) => received_any_message

\* C23: no thread holds df_lock while its process_buffer call is in the
\* validation and transformation stages or in the load.
C23_LockNotHeldDuringLoad ==
    \A e \in Executors : pc[e] \in {"pb_pipeline", "pb_load"} => df_lock # e

\* C25: every record in the frame of a flush belongs to a message that was
\* acknowledged before the flush built the frame.
C25_AckBeforeFlush ==
    \A e \in Executors : \A i \in DOMAIN df[e] : acks[df[e][i]] = 1

\* C29: when an idle flush has drained the buffer, every record of its frame
\* was appended at least 180 s before.
C29_IdleDrainAfterThreshold ==
    pc[Poller] = "pb_pipeline" =>
        \A i \in DOMAIN df[Poller] : now - appendedAt[df[Poller][i]] >= idle_threshold

\* C26: whatever the outcome of an idle flush, the poller's process_buffer
\* ends in its return (no stage takes the poller anywhere else), the step
\* after it releases df_lock and puts the poller back to sleep for one poll
\* interval, and a sleeping or polling poller never holds df_lock.
C26_PollerResumesAfterFlush ==
    [][/\ (pc[Poller] \in {"pb_pipeline", "pb_load"} /\ pc'[Poller] # pc[Poller])
            => pc'[Poller] \in {"pb_load", "pb_return"}
       /\ (pc[Poller] = "pb_return" /\ pc'[Poller] # pc[Poller])
            => /\ pc'[Poller] = "sleep"
               /\ df_lock' = Free
               /\ wakeAt' = now + idle_check_interval
       /\ pc'[Poller] \in {"sleep", "acquire"} => df_lock' # Poller]_vars

\* An idle flush failed in the load, and a record appended after it has been
\* drained by a later idle flush; the poller sleeps again.
C26_Witness ==
    /\ pc[Main] = "run"
    /\ pc[Poller] = "sleep"
    /\ \E m1, m2 \in Msgs :
         /\ m1 \in loadFailed
         /\ m2 \notin loadFailed
         /\ drained[m2] = 1
         /\ appendedAt[m2] > appendedAt[m1]

\* The stages of a flush in the order of lines 307-331.
FlushStages ==
    <<"run_all_validations", "add_tstamp_column", "add_speed_column",
      "add_service_key_column", "enforce_speed_limit",
      "remove_null_gps_coordinates", "load_breadcrumb_data">>

\* C27: in a flush the stages run in the order pre-validation, timestamp,
\* speed, service key, speed ceiling, null GPS, load: a stage is followed by
\* the next one or, when it raised, by the return of process_buffer.  The
\* load is called at most once per batch, and only on a frame that every
\* earlier stage has worked on: it has the three derived columns, and no
\* row over the ceiling or without a coordinate.
C27_StagesInOrderOneLoad ==
    /\ [][pipe_pc' # pipe_pc =>
            \/ pipe_pc = "idle" /\ pipe_pc' = FlushStages[1]
            \/ \E i \in 1..(Len(FlushStages) - 1) :
                  pipe_pc = FlushStages[i] /\ pipe_pc' \in {FlushStages[i + 1], "return"}
            \/ pipe_pc = FlushStages[Len(FlushStages)] /\ pipe_pc' = "return"
            \/ pipe_pc = "return" /\ pipe_pc' = "idle"]_vars
    /\ [][pipe_loaded' # pipe_loaded =>
            \/ pipe_loaded' = <<>>
            \/ /\ pipe_pc = "load_breadcrumb_data"
               /\ pipe_loaded = <<>>
               /\ pipe_loaded' = <<pipe_df>>]_vars
    /\ [](pipe_pc = "load_breadcrumb_data" =>
            /\ {"TSTAMP", "SPEED", "SERVICE_KEY"} \subseteq pipe_columns
            /\ \A i \in DOMAIN pipe_df :
                 /\ pipe_df[i].TSTAMP # NULL
                 /\ pipe_df[i].SERVICE_KEY # NULL
                 /\ SpeedAtMost(pipe_df[i].SPEED, max_speed)
                 /\ pipe_df[i].GPS_LATITUDE # NULL
                 /\ pipe_df[i].GPS_LONGITUDE # NULL)

\* A flush has passed every stage and called the load once, with a frame of
\* two rows or more that the filters had shortened.
C27_Witness ==
    /\ pipe_pc = "return"
    /\ Len(pipe_loaded) = 1
    /\ Len(pipe_loaded[1]) >= 2
    /\ Len(pipe_loaded[1]) < Len(pipe_after_speed)

\* C28: run_all_validations leaves the frame as it was, the same rows with
\* the same values in the same order, whatever it logs; a check that raised
\* is logged as failed, every other check has logged all that it finds in
\* the frame, and the flush of a frame that has the column OPD_DATE goes on
\* to add_tstamp_column.
C28_ValidationsLeaveBatch ==
    [][(pipe_pc = "run_all_validations" /\ pipe_pc' # pipe_pc) =>
         /\ pipe_df' = pipe_df
         /\ pipe_columns' = pipe_columns
         /\ \A func \in Range(validation_functions) :
              \/ <<"failed", func>> \in pipe_warnings'
              \/ validation_warnings(func, pipe_df, pipe_columns) \subseteq pipe_warnings'
         /\ "OPD_DATE" \in pipe_columns => pipe_pc' = "add_tstamp_column"]_vars

\* A check raised, checks before and after it in the loop logged warnings,
\* and the flush went on to call the load with rows of the batch.
C28_Witness ==
    /\ pipe_pc = "return"
    /\ Len(pipe_loaded) = 1
    /\ pipe_loaded[1] # <<>>
    /\ <<"failed", "check_meters_non_negative">> \in pipe_warnings
    /\ <<"check_required_fields", "VEHICLE_ID">> \in pipe_warnings
    /\ \E w \in pipe_warnings : w[1] = "check_zero_gps_coordinates"
    /\ \E w \in pipe_warnings : w[1] = "check_monotonic_meters"

\* The positions of a load between its call and the commit of line 152.
BeforeCommit == {"connect", "staged", "trip_inserted", "breadcrumb_inserted"}

\* C31: the rows of the trip INSERT and of the breadcrumb INSERT of a load
\* reach the tables in one step, the commit of line 152, which puts a row
\* for every staged key into both tables; no other step of a load changes
\* either table, so a load that fails anywhere before that commit ends with
\* both tables as they were when it was called, the rows its trip INSERT had
\* already written rolled back.
C31_LoadCommitsTogether ==
    /\ [][(trip' # trip \/ breadcrumb' # breadcrumb) =>
            /\ lpc = "breadcrumb_inserted" /\ lpc' = "committed"
            /\ trip' = trip_on_conflict_do_nothing(trip, tmp_trip)
            /\ breadcrumb' = breadcrumb_on_conflict_do_nothing(breadcrumb, tmp_breadcrumb)
            /\ \A i \in DOMAIN tmp_trip : \E t \in trip' : trip_key(t) = trip_key(tmp_trip[i])
            /\ \A i \in DOMAIN tmp_breadcrumb :
                 \E b \in breadcrumb' : breadcrumb_key(b) = breadcrumb_key(tmp_breadcrumb[i])]_vars
    /\ [][(lpc \in BeforeCommit /\ lpc' = "idle") =>
            /\ lresult' \in {"EnvironmentError", "NotNullViolation", "OperationalError"}
            /\ trip' = trip /\ breadcrumb' = breadcrumb
            /\ txTrip' = trip /\ txBreadcrumb' = breadcrumb
            /\ tmp_trip' = <<>> /\ tmp_breadcrumb' = <<>>]_vars
    /\ [](lpc \in BeforeCommit \cup {"idle"} => trip \subseteq txTrip /\ breadcrumb \subseteq txBreadcrumb)
    /\ [](lpc = "idle" => txTrip = trip /\ txBreadcrumb = breadcrumb)

\* A load whose trip INSERT had written the row of a new trip failed in its
\* breadcrumb INSERT: neither its trip row nor its breadcrumb row is in the
\* store, which holds the trip and the breadcrumb of an earlier load.
C31_Witness ==
    /\ lpc = "idle"
    /\ lresult = "NotNullViolation"
    /\ \A i \in DOMAIN ldf : \A t \in trip : t.trip_id # ldf[i].event_no_trip
    /\ \E i \in DOMAIN ldf : ldf[i].tstamp # NaT /\ breadcrumb_row(ldf[i]) \notin breadcrumb
    /\ trip # {}
    /\ breadcrumb # {}

=============================================================================
